---- MODULE Spec2Model ----
(***************************************************************************)
(* A model of the transfer core and the handshake of the p2p repository.    *)
(*                                                                         *)
(*   crates/handshake           ReplayGuard, the ClientHello / ServerHello *)
(*                              exchange, negotiate_encryption,            *)
(*                              derive_session_keys                        *)
(*   crates/identity            sign, verify_signature                     *)
(*   crates/transfer            TransferSession: construction, chunk_for,  *)
(*                              apply_ack, resume_from_for_receiver,       *)
(*                              all_complete                               *)
(*   crates/large_file_manager  LargeFileManager: the pause / resume /     *)
(*                              cancel state machine, update_next_chunk,   *)
(*                              save_checkpoint / load_checkpoint          *)
(*                                                                         *)
(* Every method is an operator from the receiver object and the arguments  *)
(* to the object afterwards and the returned value; the actions apply the  *)
(* operators to the state and record the call that was made.               *)
(*                                                                         *)
(* Results are records [ok, err]: ok = TRUE with err = "None" stands for   *)
(* Ok(..), ok = FALSE carries the name of the error variant.               *)
(***************************************************************************)
EXTENDS Integers, Sequences, FiniteSets, TLC

VARIABLES
    session,      \* SpecSession: the TransferSession
    sessionCall,  \* SpecSession: the last apply_ack call: ack, result, session before
    accepted,     \* SpecSession: history, the acks apply_ack has returned Ok for
    newArgs,      \* SpecNew: the arguments of TransferSession::new
    newResult,    \* SpecNew: what TransferSession::new returned
    chunkCall,    \* SpecNew: the last chunk_for call: index, result, chunk
    mgr,          \* SpecManager: the LargeFileManager
    file,         \* SpecManager: the content of the checkpoint file
    lfmCall,      \* SpecManager: the last manager call: op, argument, result, manager before
    guard,        \* SpecGuard: the ReplayGuard the verifications share
    clock,        \* SpecGuard: what Instant::now() returns
    pending,      \* SpecGuard: per verification, the nonce and the time it is about to present
    guardLog,     \* SpecGuard: history, the calls made on the guard in the order they were served
    stage,        \* SpecHello: which hello of the exchange is under way
    chSent,       \* SpecHello: the ClientHello as created
    chWire,       \* SpecHello: the ClientHello as it reaches the server
    shSent,       \* SpecHello: the ServerHello as created
    shWire,       \* SpecHello: the ServerHello as it reaches the client
    helloCall,    \* SpecHello: the last verify_*_hello call: arguments and result
    negArgs,      \* SpecNegotiate: the capabilities of the client and of the server
    negResult,    \* SpecNegotiate: negotiate_encryption(client, server)
    negSwapped,   \* SpecNegotiate: negotiate_encryption(server, client)
    keysFirst,    \* SpecKeys: a derive_session_keys call: arguments and keys
    keysSecond,   \* SpecKeys: another derive_session_keys call
    frameIn,      \* SpecFrame: the chunk handed to encode, with the bytes encode returned
    frameBytes,   \* SpecFrame: the bytes that reach the decoders
    frameCall,    \* SpecFrame: what the three decoders returned for frameBytes
    envSealed,    \* SpecEnvelope: an encrypt_chunk_with_aad call: arguments and ciphertext
    envOpened,    \* SpecEnvelope: a decrypt_chunk_with_aad call: arguments and result
    nonceCall,    \* SpecEnvelope: two derive_nonce calls: arguments and nonces
    adapterSent,  \* SpecAdapter: an encrypt_chunk_frame call: chunk, key and frame
    adapterWire,  \* SpecAdapter: the v2 frame that reaches the receiver
    adapterCall,  \* SpecAdapter: a decrypt_chunk_frame call: key, result and chunk
    routeFirst,   \* SpecRoute: a decide_route call: arguments and plan
    routeSecond,  \* SpecRoute: another decide_route call
    lanGuard,     \* SpecOffline: the LanOfflineGuard
    lanCall,      \* SpecOffline: the last call on the guard: op, address, decision, guard before
    lanSetCall,   \* SpecOffline: the last validate_peer_set call: guard, peers and result
    asmArgs,      \* SpecAssemble: the total_chunks and the chunk map handed to assemble_file
    asmCall,      \* SpecAssemble: what assemble_file returned for asmArgs
    idxArgs,      \* SpecIndex: the file's bytes and the chunk_size of a transfer
    idxMgr,       \* SpecIndex: what LargeFileManager::new returned for them
    idxCall,      \* SpecIndex: the last build_chunk_index call: file_size and index
    longArgs,     \* SpecLong: the arguments of TransferSession::new, the data by its length
    longNew,      \* SpecLong: what TransferSession::new returned for them
    longCall,     \* SpecLong: two chunks of the session and the frames encrypt_chunk_frame made
    telemetry,    \* SpecAudit: the AuditTelemetry
    recorded      \* SpecAudit: the events handed to record_event so far, in the order of the calls

vars == <<session, sessionCall, accepted, newArgs, newResult, chunkCall, mgr, file, lfmCall,
          guard, clock, pending, guardLog, stage, chSent, chWire, shSent, shWire, helloCall,
          negArgs, negResult, negSwapped, keysFirst, keysSecond,
          frameIn, frameBytes, frameCall, envSealed, envOpened, nonceCall,
          adapterSent, adapterWire, adapterCall, routeFirst, routeSecond, lanGuard, lanCall,
          lanSetCall, asmArgs, asmCall, idxArgs, idxMgr, idxCall,
          longArgs, longNew, longCall, telemetry, recorded>>

sessionVars == <<session, sessionCall, accepted>>
newVars     == <<newArgs, newResult, chunkCall>>
managerVars == <<mgr, file, lfmCall>>
guardVars   == <<guard, clock, pending, guardLog>>

helloVars   == <<stage, chSent, chWire, shSent, shWire, helloCall>>

negotiateVars == <<negArgs, negResult, negSwapped>>
keysVars    == <<keysFirst, keysSecond>>

handshakeVars == <<guardVars, helloVars, negotiateVars, keysVars>>

frameVars   == <<frameIn, frameBytes, frameCall>>

\* the subsystems around a transfer: framing, envelope, route planning, offline policy
envelopeVars == <<envSealed, envOpened, nonceCall>>
adapterVars == <<adapterSent, adapterWire, adapterCall>>
routeVars   == <<routeFirst, routeSecond>>
lanVars     == <<lanGuard, lanCall, lanSetCall>>

\* what is done with a file around its transfer: assembly, the index of its chunks
assembleVars == <<asmArgs, asmCall>>
indexVars   == <<idxArgs, idxMgr, idxCall>>
longVars    == <<longArgs, longNew, longCall>>
auditVars   == <<telemetry, recorded>>
sideVars    == <<assembleVars, indexVars, longVars, auditVars>>

edgeVars    == <<frameVars, envelopeVars, adapterVars, routeVars, lanVars, sideVars>>

coreVars    == <<sessionVars, newVars, managerVars, handshakeVars>>

\* what the actions of one of these subsystems leave alone
notFrameVars    == <<coreVars, envelopeVars, adapterVars, routeVars, lanVars, sideVars>>
notEnvelopeVars == <<coreVars, frameVars, adapterVars, routeVars, lanVars, sideVars>>
notAdapterVars  == <<coreVars, frameVars, envelopeVars, routeVars, lanVars, sideVars>>
notRouteVars    == <<coreVars, frameVars, envelopeVars, adapterVars, lanVars, sideVars>>
notLanVars      == <<coreVars, frameVars, envelopeVars, adapterVars, routeVars, sideVars>>
notSideVars     == <<coreVars, frameVars, envelopeVars, adapterVars, routeVars, lanVars>>
notAssembleVars == <<notSideVars, indexVars, longVars, auditVars>>
notIndexVars    == <<notSideVars, assembleVars, longVars, auditVars>>
notLongVars     == <<notSideVars, assembleVars, indexVars, auditVars>>
notAuditVars    == <<notSideVars, assembleVars, indexVars, longVars>>

---------------------------------------------------------------------------
(* Bounds of the model *)

MaxDataLen   == 3   \* longest data / largest file size
MaxChunkSize == 2   \* largest chunk_size
MaxReceivers == 2   \* longest receiver_ids list
MaxTime      == 2   \* latest reading of the clock
MaxTtl       == 1   \* longest ttl of a ReplayGuard
MaxCalls     == 3   \* most calls served by one ReplayGuard
MaxSkew      == 1   \* largest max_skew_secs
MaxPeers     == 3   \* most peers in a set handed to validate_peer_set
MaxRetained  == 2   \* largest max_events of a RetentionPolicy
MaxRecorded  == 3   \* most events recorded by one AuditTelemetry
MaxCounted   == 2   \* most increments of the counters of one AuditTelemetry

(* Inputs *)

Bytes          == {1, 2}
TransferIds    == {7, 105}
ReceiverNames  == {"r1", "r2"}           \* names a session may list
AckReceivers   == ReceiverNames \cup {"r3"}  \* "r3" is never listed

SeqsUpTo(S, n) == UNION {[1..k -> S] : k \in 0..n}

---------------------------------------------------------------------------
(* Results *)

Ok       == [ok |-> TRUE, err |-> "None"]
Err(e)   == [ok |-> FALSE, err |-> e]

Min(a, b) == IF a < b THEN a ELSE b
Max(a, b) == IF a > b THEN a ELSE b

---------------------------------------------------------------------------
(* crates/transfer: TransferSession *)

\* HashMap::insert: the entry for k is v, whatever it was
MapInsert(m, k, v) == [x \in (DOMAIN m) \cup {k} |-> IF x = k THEN v ELSE m[x]]

\* usize::div_ceil
DivCeil(a, b) == LET d == a \div b
                     r == a % b
                 IN IF r > 0 THEN d + 1 ELSE d

\* total_chunks rounding the last, shorter chunk away
TotalChunks_floor(data_len, chunk_size) ==
    IF data_len = 0 THEN 1 ELSE data_len \div chunk_size

\* the total_chunks of a transfer of data_len bytes in chunks of chunk_size. The
\* code casts the quotient to u32, which is the identity below 2^32 and truncates
\* from there on; the lengths of this model stay far below (2^32 is more than
\* TLC's integers hold), so the cast is left out.
TotalChunks(data_len, chunk_size) ==
    IF data_len = 0 THEN 1 ELSE DivCeil(data_len, chunk_size)

ReceiverProgress(id, acked, total) ==
    [receiver_id |-> id, acked_up_to_exclusive |-> acked, total_chunks |-> total]

RECURSIVE InsertReceivers(_, _, _)
\* the loop of TransferSession::new over receiver_ids
InsertReceivers(receivers, receiver_ids, total_chunks) ==
    IF receiver_ids = <<>> THEN receivers
    ELSE LET id == Head(receiver_ids)
         IN InsertReceivers(MapInsert(receivers, id, ReceiverProgress(id, 0, total_chunks)),
                            Tail(receiver_ids), total_chunks)

NoSession == [transfer_id |-> 0, total_chunks |-> 0, chunk_size |-> 0,
              data |-> <<>>, receivers |-> <<>>]

\* TransferSession::new
SessionNew(transfer_id, data, chunk_size, receiver_ids) ==
    IF chunk_size = 0
    THEN [result |-> Err("InvalidConfig"), session |-> NoSession]
    ELSE LET total_chunks == TotalChunks(Len(data), chunk_size)
         IN [result  |-> Ok,
             session |-> [transfer_id  |-> transfer_id,
                          total_chunks |-> total_chunks,
                          chunk_size   |-> chunk_size,
                          data         |-> data,
                          receivers    |-> InsertReceivers(<<>>, receiver_ids, total_chunks)]]

NoChunk == [transfer_id |-> 0, chunk_index |-> 0, total_chunks |-> 0, payload |-> <<>>]

\* data[start..end]: a slice out of bounds panics
SliceInBounds(data, start, end) == start <= end /\ end <= Len(data)
Slice(data, start, end) == SubSeq(data, start + 1, end)

\* chunk_for starting chunk i at byte i: the index is not scaled by chunk_size
chunk_for_unscaled(s, chunk_index) ==
    IF chunk_index >= s.total_chunks
    THEN [result |-> Err("ChunkOutOfRange"), chunk |-> NoChunk]
    ELSE LET start == chunk_index
             end   == Min((chunk_index + 1) * s.chunk_size, Len(s.data))
         IN IF s.data # <<>> /\ ~SliceInBounds(s.data, start, end)
            THEN [result |-> Err("Panic"), chunk |-> NoChunk]
            ELSE [result |-> Ok,
                  chunk  |-> [transfer_id  |-> s.transfer_id,
                              chunk_index  |-> chunk_index,
                              total_chunks |-> s.total_chunks,
                              payload      |-> IF s.data = <<>> THEN <<>>
                                               ELSE Slice(s.data, start, end)]]

\* TransferSession::chunk_for
chunk_for(s, chunk_index) ==
    IF chunk_index >= s.total_chunks
    THEN [result |-> Err("ChunkOutOfRange"), chunk |-> NoChunk]
    ELSE LET start == chunk_index * s.chunk_size
             end   == Min((chunk_index + 1) * s.chunk_size, Len(s.data))
         IN IF s.data # <<>> /\ ~SliceInBounds(s.data, start, end)
            THEN [result |-> Err("Panic"), chunk |-> NoChunk]
            ELSE [result |-> Ok,
                  chunk  |-> [transfer_id  |-> s.transfer_id,
                              chunk_index  |-> chunk_index,
                              total_chunks |-> s.total_chunks,
                              payload      |-> IF s.data = <<>> THEN <<>>
                                               ELSE Slice(s.data, start, end)]]

\* apply_ack without the forward-only test: the checkpoint follows the last ack
apply_ack_latest(s, ack) ==
    IF ack.transfer_id # s.transfer_id
    THEN [result |-> Err("WrongTransfer"), session |-> s]
    ELSE IF ack.receiver_id \notin DOMAIN s.receivers
    THEN [result |-> Err("UnknownReceiver"), session |-> s]
    ELSE IF ack.next_expected_chunk > s.total_chunks
    THEN [result |-> Err("AckOutOfRange"), session |-> s]
    ELSE [result  |-> Ok,
          session |-> [s EXCEPT !.receivers[ack.receiver_id].acked_up_to_exclusive =
                                    ack.next_expected_chunk]]

\* apply_ack keeping one checkpoint for the whole session: an accepted ack moves
\* every receiver forward
apply_ack_shared(s, ack) ==
    IF ack.transfer_id # s.transfer_id
    THEN [result |-> Err("WrongTransfer"), session |-> s]
    ELSE IF ack.receiver_id \notin DOMAIN s.receivers
    THEN [result |-> Err("UnknownReceiver"), session |-> s]
    ELSE IF ack.next_expected_chunk > s.total_chunks
    THEN [result |-> Err("AckOutOfRange"), session |-> s]
    ELSE [result  |-> Ok,
          session |-> [s EXCEPT !.receivers =
                          [id \in DOMAIN s.receivers |->
                              [s.receivers[id] EXCEPT !.acked_up_to_exclusive =
                                  Max(@, ack.next_expected_chunk)]]]]

\* apply_ack looking the receiver up before it compares the transfer ids
apply_ack_receiver_first(s, ack) ==
    IF ack.receiver_id \notin DOMAIN s.receivers
    THEN [result |-> Err("UnknownReceiver"), session |-> s]
    ELSE IF ack.transfer_id # s.transfer_id
    THEN [result |-> Err("WrongTransfer"), session |-> s]
    ELSE IF ack.next_expected_chunk > s.total_chunks
    THEN [result |-> Err("AckOutOfRange"), session |-> s]
    ELSE LET receiver == s.receivers[ack.receiver_id]
         IN IF ack.next_expected_chunk > receiver.acked_up_to_exclusive
            THEN [result  |-> Ok,
                  session |-> [s EXCEPT !.receivers[ack.receiver_id].acked_up_to_exclusive =
                                            ack.next_expected_chunk]]
            ELSE [result |-> Ok, session |-> s]

\* TransferSession::apply_ack
apply_ack(s, ack) ==
    IF ack.transfer_id # s.transfer_id
    THEN [result |-> Err("WrongTransfer"), session |-> s]
    ELSE IF ack.receiver_id \notin DOMAIN s.receivers
    THEN [result |-> Err("UnknownReceiver"), session |-> s]
    ELSE IF ack.next_expected_chunk > s.total_chunks
    THEN [result |-> Err("AckOutOfRange"), session |-> s]
    ELSE LET receiver == s.receivers[ack.receiver_id]
         IN IF ack.next_expected_chunk > receiver.acked_up_to_exclusive
            THEN [result  |-> Ok,
                  session |-> [s EXCEPT !.receivers[ack.receiver_id].acked_up_to_exclusive =
                                            ack.next_expected_chunk]]
            ELSE [result |-> Ok, session |-> s]

\* TransferSession::resume_from_for_receiver
resume_from_for_receiver(s, receiver_id) ==
    IF receiver_id \notin DOMAIN s.receivers
    THEN [result |-> Err("UnknownReceiver"), value |-> 0]
    ELSE [result |-> Ok, value |-> s.receivers[receiver_id].acked_up_to_exclusive]

\* ReceiverProgress::is_complete
is_complete(p) == p.acked_up_to_exclusive >= p.total_chunks

\* all_complete with any in the place of all
all_complete_any(s) == \E id \in DOMAIN s.receivers : is_complete(s.receivers[id])

\* TransferSession::all_complete
all_complete(s) == \A id \in DOMAIN s.receivers : is_complete(s.receivers[id])

---------------------------------------------------------------------------
(* crates/transfer: TransferSession over data of millions of bytes.          *)
(* The data is vec![1u8; data_len] and is kept by its length: the session    *)
(* holds data_len where the code holds the vector.                           *)

NoFilledSession == [transfer_id |-> 0, total_chunks |-> 0, chunk_size |-> 0,
                    data_len |-> 0, receivers |-> <<>>]

\* TransferSession::new on vec![1u8; data_len]
SessionNewFilled(transfer_id, data_len, chunk_size, receiver_ids) ==
    IF chunk_size = 0
    THEN [result |-> Err("InvalidConfig"), session |-> NoFilledSession]
    ELSE LET total_chunks == TotalChunks(data_len, chunk_size)
         IN [result  |-> Ok,
             session |-> [transfer_id  |-> transfer_id,
                          total_chunks |-> total_chunks,
                          chunk_size   |-> chunk_size,
                          data_len     |-> data_len,
                          receivers    |-> InsertReceivers(<<>>, receiver_ids, total_chunks)]]

\* TransferSession::chunk_for on such a session: the slice data[start..end] is
\* end - start bytes of value 1
chunk_for_filled(s, chunk_index) ==
    IF chunk_index >= s.total_chunks
    THEN [result |-> Err("ChunkOutOfRange"), chunk |-> NoChunk]
    ELSE LET start == chunk_index * s.chunk_size
             end   == Min((chunk_index + 1) * s.chunk_size, s.data_len)
         IN IF s.data_len # 0 /\ ~(start <= end /\ end <= s.data_len)
            THEN [result |-> Err("Panic"), chunk |-> NoChunk]
            ELSE [result |-> Ok,
                  chunk  |-> [transfer_id  |-> s.transfer_id,
                              chunk_index  |-> chunk_index,
                              total_chunks |-> s.total_chunks,
                              payload      |-> IF s.data_len = 0 THEN <<>>
                                               ELSE [k \in 1..(end - start) |-> 1]]]

---------------------------------------------------------------------------
(* crates/large_file_manager: LargeFileManager *)

TransferStates == {"Running", "Paused", "Cancelled"}

NoManager == [transfer_id |-> 0, total_chunks |-> 0, chunk_size |-> 0,
              checkpoint |-> [transfer_id |-> 0, next_chunk |-> 0, state |-> "Running"]]

\* LargeFileManager::new; the cast of total_chunks to u32 is left out as in
\* TotalChunks
ManagerNew(transfer_id, file_size, chunk_size) ==
    IF chunk_size = 0
    THEN [result |-> Err("InvalidConfig"), mgr |-> NoManager]
    ELSE [result |-> Ok,
          mgr    |-> [transfer_id  |-> transfer_id,
                      total_chunks |-> IF file_size = 0 THEN 1
                                       ELSE DivCeil(file_size, chunk_size),
                      chunk_size   |-> chunk_size,
                      checkpoint   |-> [transfer_id |-> transfer_id,
                                        next_chunk  |-> 0,
                                        state       |-> "Running"]]]

\* update_next_chunk taking the value it is given, lower or not
update_next_chunk_latest(m, next_chunk) ==
    IF next_chunk > m.total_chunks
    THEN [result |-> Err("ChunkOutOfRange"), mgr |-> m]
    ELSE IF m.checkpoint.state = "Cancelled"
    THEN [result |-> Err("InvalidState"), mgr |-> m]
    ELSE [result |-> Ok, mgr |-> [m EXCEPT !.checkpoint.next_chunk = next_chunk]]

\* LargeFileManager::update_next_chunk
update_next_chunk(m, next_chunk) ==
    IF next_chunk > m.total_chunks
    THEN [result |-> Err("ChunkOutOfRange"), mgr |-> m]
    ELSE IF m.checkpoint.state = "Cancelled"
    THEN [result |-> Err("InvalidState"), mgr |-> m]
    ELSE IF next_chunk > m.checkpoint.next_chunk
    THEN [result |-> Ok, mgr |-> [m EXCEPT !.checkpoint.next_chunk = next_chunk]]
    ELSE [result |-> Ok, mgr |-> m]

\* pause refusing a transfer that is paused already
pause_strict(m) ==
    CASE m.checkpoint.state = "Running" ->
            [result |-> Ok, mgr |-> [m EXCEPT !.checkpoint.state = "Paused"]]
      [] m.checkpoint.state = "Paused" ->
            [result |-> Err("InvalidState"), mgr |-> m]
      [] m.checkpoint.state = "Cancelled" ->
            [result |-> Err("InvalidState"), mgr |-> m]

\* LargeFileManager::pause
pause(m) ==
    CASE m.checkpoint.state = "Running" ->
            [result |-> Ok, mgr |-> [m EXCEPT !.checkpoint.state = "Paused"]]
      [] m.checkpoint.state = "Paused" ->
            [result |-> Ok, mgr |-> m]
      [] m.checkpoint.state = "Cancelled" ->
            [result |-> Err("InvalidState"), mgr |-> m]

\* resume restarting whatever is not running, a cancelled transfer too
resume_any(m) ==
    CASE m.checkpoint.state = "Paused" ->
            [result |-> Ok, mgr |-> [m EXCEPT !.checkpoint.state = "Running"]]
      [] m.checkpoint.state = "Running" ->
            [result |-> Ok, mgr |-> m]
      [] m.checkpoint.state = "Cancelled" ->
            [result |-> Ok, mgr |-> [m EXCEPT !.checkpoint.state = "Running"]]

\* LargeFileManager::resume
resume(m) ==
    CASE m.checkpoint.state = "Paused" ->
            [result |-> Ok, mgr |-> [m EXCEPT !.checkpoint.state = "Running"]]
      [] m.checkpoint.state = "Running" ->
            [result |-> Ok, mgr |-> m]
      [] m.checkpoint.state = "Cancelled" ->
            [result |-> Err("InvalidState"), mgr |-> m]

\* LargeFileManager::cancel returns nothing
cancel(m) == [result |-> Ok, mgr |-> [m EXCEPT !.checkpoint.state = "Cancelled"]]

(* The checkpoint file: text, a sequence of characters (one-character strings) *)

NL == "\n"
CR == "\r"

Digits == <<"0", "1", "2", "3", "4", "5", "6", "7", "8", "9">>

IsDigit(c)    == \E d \in 1..10 : Digits[d] = c
DigitValue(c) == (CHOOSE d \in 1..10 : Digits[d] = c) - 1

RECURSIVE ToDecimal(_)
\* Display for u64 and u32: the decimal digits, no sign, no leading zero
ToDecimal(n) == IF n < 10 THEN <<Digits[n + 1]>>
                ELSE ToDecimal(n \div 10) \o <<Digits[(n % 10) + 1]>>

\* the state names with "canceled" spelled with one l, which load does not know
StateText_canceled(state) ==
    CASE state = "Running"   -> <<"r", "u", "n", "n", "i", "n", "g">>
      [] state = "Paused"    -> <<"p", "a", "u", "s", "e", "d">>
      [] state = "Cancelled" -> <<"c", "a", "n", "c", "e", "l", "e", "d">>

\* the text save_checkpoint writes for a state
StateText(state) ==
    CASE state = "Running"   -> <<"r", "u", "n", "n", "i", "n", "g">>
      [] state = "Paused"    -> <<"p", "a", "u", "s", "e", "d">>
      [] state = "Cancelled" -> <<"c", "a", "n", "c", "e", "l", "l", "e", "d">>

NoFile == [exists |-> FALSE, content |-> <<>>]

\* LargeFileManager::save_checkpoint; io_ok is whether create_dir_all and write
\* succeed. The transfer id written is the manager's, not the checkpoint's.
save_checkpoint(m, f, io_ok) ==
    IF ~io_ok
    THEN [result |-> Err("Io"), file |-> f]
    ELSE [result |-> Ok,
          file   |-> [exists  |-> TRUE,
                      content |-> ToDecimal(m.transfer_id) \o <<NL>>
                                  \o ToDecimal(m.checkpoint.next_chunk) \o <<NL>>
                                  \o StateText(m.checkpoint.state) \o <<NL>>]]

\* the position of the first newline of s, 0 if it has none
FirstNL(s) == IF \E k \in 1..Len(s) : s[k] = NL
              THEN CHOOSE k \in 1..Len(s) : s[k] = NL /\ \A j \in 1..(k - 1) : s[j] # NL
              ELSE 0

\* a line that ended in a newline loses one carriage return before it
StripCR(line) == IF line # <<>> /\ line[Len(line)] = CR
                 THEN SubSeq(line, 1, Len(line) - 1) ELSE line

RECURSIVE Lines(_)
\* str::lines: split at every newline; the last line needs none; nothing follows
\* a final newline
Lines(s) ==
    IF s = <<>> THEN <<>>
    ELSE LET k == FirstNL(s)
         IN IF k = 0 THEN <<s>>
            ELSE <<StripCR(SubSeq(s, 1, k - 1))>> \o Lines(SubSeq(s, k + 1, Len(s)))

RECURSIVE StripZeros(_)
StripZeros(ds) == IF ds # <<>> /\ ds[1] = "0" THEN StripZeros(Tail(ds)) ELSE ds

RECURSIVE DigitsGreater(_, _)
\* two digit strings of one length: the first is the greater number
DigitsGreater(a, b) ==
    IF a = <<>> THEN FALSE
    ELSE IF DigitValue(a[1]) # DigitValue(b[1]) THEN DigitValue(a[1]) > DigitValue(b[1])
    ELSE DigitsGreater(Tail(a), Tail(b))

RECURSIVE DigitsValue(_)
DigitsValue(ds) == IF ds = <<>> THEN 0
                   ELSE DigitsValue(SubSeq(ds, 1, Len(ds) - 1)) * 10 + DigitValue(ds[Len(ds)])

U64MaxText == <<"1", "8", "4", "4", "6", "7", "4", "4", "0", "7", "3", "7", "0", "9", "5", "5",
                "1", "6", "1", "5">>
U32MaxText == <<"4", "2", "9", "4", "9", "6", "7", "2", "9", "5">>

\* str::parse for an unsigned integer whose largest value reads max_text: an
\* optional "+", then one digit or more, and no overflow
ParseUnsigned(s, max_text) ==
    LET ds == IF s # <<>> /\ s[1] = "+" THEN Tail(s) ELSE s
        sig == StripZeros(ds)
    IN IF ds = <<>> \/ \E k \in 1..Len(ds) : ~IsDigit(ds[k])
       THEN [ok |-> FALSE, value |-> 0]
       ELSE IF Len(sig) > Len(max_text)
               \/ (Len(sig) = Len(max_text) /\ DigitsGreater(sig, max_text))
       THEN [ok |-> FALSE, value |-> 0]
       ELSE [ok |-> TRUE, value |-> DigitsValue(sig)]

\* the match of load_checkpoint on the third line
ParseState(line) ==
    CASE line = <<"r", "u", "n", "n", "i", "n", "g">> -> [ok |-> TRUE, value |-> "Running"]
      [] line = <<"p", "a", "u", "s", "e", "d">> -> [ok |-> TRUE, value |-> "Paused"]
      [] line = <<"c", "a", "n", "c", "e", "l", "l", "e", "d">> ->
            [ok |-> TRUE, value |-> "Cancelled"]
      [] OTHER -> [ok |-> FALSE, value |-> "Running"]

NoCheckpoint == [transfer_id |-> 0, next_chunk |-> 0, state |-> "Running"]

\* LargeFileManager::load_checkpoint
load_checkpoint(f) ==
    IF ~f.exists
    THEN [result |-> Err("Io"), checkpoint |-> NoCheckpoint]
    ELSE LET lines == Lines(f.content)
             bad   == [result |-> Err("CheckpointFormat"), checkpoint |-> NoCheckpoint]
         IN IF Len(lines) < 1 THEN bad
            ELSE LET transfer_id == ParseUnsigned(lines[1], U64MaxText)
                 IN IF ~transfer_id.ok THEN bad
                    ELSE IF Len(lines) < 2 THEN bad
                    ELSE LET next_chunk == ParseUnsigned(lines[2], U32MaxText)
                         IN IF ~next_chunk.ok THEN bad
                            ELSE IF Len(lines) < 3 THEN bad
                            ELSE LET state == ParseState(lines[3])
                                 IN IF ~state.ok THEN bad
                                    ELSE [result     |-> Ok,
                                          checkpoint |-> [transfer_id |-> transfer_id.value,
                                                          next_chunk  |-> next_chunk.value,
                                                          state       |-> state.value]]

---------------------------------------------------------------------------
(* crates/large_file_manager: build_chunk_index *)

ChunkIndexEntry(chunk_index, offset, length) ==
    [chunk_index |-> chunk_index, offset |-> offset, length |-> length]

\* a - b, and 0 where b is the larger
saturating_sub(a, b) == IF a >= b THEN a - b ELSE 0

\* build_chunk_index giving every chunk the full chunk_size
build_chunk_index_full(m, file_size) ==
    [i \in 1..m.total_chunks |-> ChunkIndexEntry(i - 1, (i - 1) * m.chunk_size, m.chunk_size)]

\* LargeFileManager::build_chunk_index: one entry per chunk_idx in 0..total_chunks,
\* pushed in that order. The casts (usize to u64 and to u32) are the identity on
\* the sizes of this model.
build_chunk_index(m, file_size) ==
    [i \in 1..m.total_chunks |->
        LET chunk_idx == i - 1
            offset    == chunk_idx * m.chunk_size
            remaining == saturating_sub(file_size, offset)
            length    == Min(remaining, m.chunk_size)
        IN ChunkIndexEntry(chunk_idx, offset, length)]

---------------------------------------------------------------------------
(* crates/large_file_manager: assemble_file.                                 *)
(* The BTreeMap of received chunks is a function from the indices it holds   *)
(* to their payloads.                                                        *)

\* Ok(out) and Err(ManagerError::MissingChunk(i))
AssembleOk      == [ok |-> TRUE, err |-> "None", index |-> 0]
MissingChunk(i) == [ok |-> FALSE, err |-> "MissingChunk", index |-> i]

RECURSIVE AssembleFrom(_, _, _, _)
\* the loop of assemble_file from index i on, out being what is assembled so far
AssembleFrom(i, total_chunks, chunks, out) ==
    IF i >= total_chunks THEN [result |-> AssembleOk, out |-> out]
    ELSE IF i \notin DOMAIN chunks THEN [result |-> MissingChunk(i), out |-> <<>>]
    ELSE AssembleFrom(i + 1, total_chunks, chunks, out \o chunks[i])

RECURSIVE assemble_file_skipping(_, _)
\* assemble_file leaving out the chunks that are missing
assemble_file_skipping(total_chunks, chunks) ==
    IF total_chunks = 0 THEN [result |-> AssembleOk, out |-> <<>>]
    ELSE LET i == total_chunks - 1
         IN [result |-> AssembleOk,
             out    |-> assemble_file_skipping(i, chunks).out
                        \o (IF i \in DOMAIN chunks THEN chunks[i] ELSE <<>>)]

\* assemble_file
assemble_file(total_chunks, chunks) == AssembleFrom(0, total_chunks, chunks, <<>>)

---------------------------------------------------------------------------
(* crates/handshake: ReplayGuard *)

\* [u8; 32]
NonceLen == 32

\* the nonce [b; 32], as the test builds [7u8; 32]
Nonce(b) == [i \in 1..NonceLen |-> b]

Nonces == {Nonce(7), Nonce(9)}

\* HashMap::new()
EmptyMap == [k \in {} |-> 0]

\* ReplayGuard::new
GuardNew(ttl) == [seen |-> EmptyMap, ttl |-> ttl]

\* Instant::duration_since: the time elapsed from earlier to now, zero when
\* earlier is later than now
duration_since(now, earlier) == IF now >= earlier THEN now - earlier ELSE 0

expire_later_than(g, now) ==
    [g EXCEPT !.seen = [n \in {k \in DOMAIN g.seen :
                                  g.seen[k] <= now /\ now - g.seen[k] <= g.ttl} |-> g.seen[n]]]

\* ReplayGuard::expire: retain the entries seen no longer than ttl before now
expire(g, now) ==
    [g EXCEPT !.seen = [n \in {k \in DOMAIN g.seen :
                                  duration_since(now, g.seen[k]) <= g.ttl} |-> g.seen[n]]]

check_and_remember_refresh(g, nonce, now) ==
    LET e == expire(g, now)
    IN [result |-> nonce \notin DOMAIN e.seen,
        guard  |-> [e EXCEPT !.seen = MapInsert(e.seen, nonce, now)]]

\* check_and_remember leaving the purge to the owner's expire calls
check_and_remember_without_expire(g, nonce, now) ==
    IF nonce \in DOMAIN g.seen
    THEN [result |-> FALSE, guard |-> g]
    ELSE [result |-> TRUE,  guard |-> [g EXCEPT !.seen = MapInsert(g.seen, nonce, now)]]

\* ReplayGuard::check_and_remember
check_and_remember(g, nonce, now) ==
    LET e == expire(g, now)
    IN IF nonce \in DOMAIN e.seen
       THEN [result |-> FALSE, guard |-> e]
       ELSE [result |-> TRUE,  guard |-> [e EXCEPT !.seen = MapInsert(e.seen, nonce, now)]]

---------------------------------------------------------------------------
(* crates/audit_telemetry: AuditTelemetry.                                   *)
(* An AuditEvent is a record of timestamp_ms, category, action and metadata, *)
(* the metadata a map from strings to strings.                               *)

RetentionPolicy(max_events) == [max_events |-> max_events]

\* AuditTelemetry::new
TelemetryNew(retention) == [events |-> <<>>, counters |-> EmptyMap, retention |-> retention]

REDACT_KEYS == <<"file_name", "file_path", "receiver_name", "sender_name", "payload">>

REDACTED == "[REDACTED]"

\* the loop of redact_sensitive_metadata over the keys from the i-th on
RECURSIVE RedactFrom(_, _)
RedactFrom(i, metadata) ==
    IF i > Len(REDACT_KEYS) THEN metadata
    ELSE RedactFrom(i + 1, IF REDACT_KEYS[i] \in DOMAIN metadata
                           THEN MapInsert(metadata, REDACT_KEYS[i], REDACTED)
                           ELSE metadata)

redact_sensitive_metadata(metadata) == RedactFrom(1, metadata)

\* a retention that drains the tail of the log where the code drains its head
enforce_retention_keeping_oldest(t) ==
    IF Len(t.events) > t.retention.max_events
    THEN [t EXCEPT !.events = SubSeq(t.events, 1, t.retention.max_events)]
    ELSE t

\* AuditTelemetry::enforce_retention
enforce_retention(t) ==
    IF Len(t.events) > t.retention.max_events
    THEN LET drop_n == Len(t.events) - t.retention.max_events
         IN [t EXCEPT !.events = SubSeq(t.events, drop_n + 1, Len(t.events))]
    ELSE t

\* AuditTelemetry::record_event
record_event(t, event) ==
    LET redacted == [event EXCEPT !.metadata = redact_sensitive_metadata(event.metadata)]
    IN enforce_retention([t EXCEPT !.events = Append(t.events, redacted)])

\* AuditTelemetry::counter_value
counter_value(t, metric) == IF metric \in DOMAIN t.counters THEN t.counters[metric] ELSE 0

\* AuditTelemetry::increment_counter
increment_counter(t, metric) ==
    [t EXCEPT !.counters = MapInsert(t.counters, metric, counter_value(t, metric) + 1)]

\* AuditTelemetry::events
events(t) == t.events

---------------------------------------------------------------------------
(* crates/identity: keys, base64 and signatures.                            *)
(* Strings and byte arrays are sequences of bytes (a str is its UTF-8       *)
(* bytes). Ed25519 is taken as an ideal signature scheme: the verifying key *)
(* is a fixed function of the signing key, signing is deterministic, and a  *)
(* signature verifies under a key for a message exactly when it is the      *)
(* signature that key's owner produces for that message.                    *)

\* the length of a verifying key
KeyLen == 32

\* DeviceIdentity { signing_key }
Identities == {[signing_key |-> 1], [signing_key |-> 2]}

\* DeviceIdentity::verifying_key
verifying_key(identity) == [i \in 1..KeyLen |-> (identity.signing_key * 16 + i) % 256]

\* the alphabet of the STANDARD base64 engine: A-Z a-z 0-9 + /
B64Char(v) ==
    IF v < 26 THEN 65 + v
    ELSE IF v < 52 THEN 97 + (v - 26)
    ELSE IF v < 62 THEN 48 + (v - 52)
    ELSE IF v = 62 THEN 43 ELSE 47

\* the value of a symbol of the alphabet, -1 for any other byte
B64Value(c) ==
    IF c >= 65 /\ c <= 90 THEN c - 65
    ELSE IF c >= 97 /\ c <= 122 THEN c - 97 + 26
    ELSE IF c >= 48 /\ c <= 57 THEN c - 48 + 52
    ELSE IF c = 43 THEN 62
    ELSE IF c = 47 THEN 63 ELSE 0 - 1

\* STANDARD_NO_PAD.encode: three bytes to four symbols, no padding at the end
RECURSIVE B64Encode(_)
B64Encode(b) ==
    IF Len(b) = 0 THEN <<>>
    ELSE IF Len(b) = 1
    THEN <<B64Char(b[1] \div 4), B64Char((b[1] % 4) * 16)>>
    ELSE IF Len(b) = 2
    THEN <<B64Char(b[1] \div 4), B64Char((b[1] % 4) * 16 + b[2] \div 16),
           B64Char((b[2] % 16) * 4)>>
    ELSE <<B64Char(b[1] \div 4), B64Char((b[1] % 4) * 16 + b[2] \div 16),
           B64Char((b[2] % 16) * 4 + b[3] \div 64), B64Char(b[3] % 64)>>
         \o B64Encode(SubSeq(b, 4, Len(b)))

\* the bytes of a sequence of symbol values, whole groups of four first
RECURSIVE B64Bytes(_)
B64Bytes(v) ==
    IF Len(v) = 0 THEN <<>>
    ELSE IF Len(v) = 2 THEN <<v[1] * 4 + v[2] \div 16>>
    ELSE IF Len(v) = 3 THEN <<v[1] * 4 + v[2] \div 16, (v[2] % 16) * 16 + v[3] \div 4>>
    ELSE <<v[1] * 4 + v[2] \div 16, (v[2] % 16) * 16 + v[3] \div 4, (v[3] % 4) * 64 + v[4]>>
         \o B64Bytes(SubSeq(v, 5, Len(v)))

\* STANDARD_NO_PAD.decode: rejects a byte outside the alphabet (the padding
\* symbol included), a length of 1 modulo 4, and nonzero bits after the last byte
B64Decode(s) ==
    LET v    == [i \in 1..Len(s) |-> B64Value(s[i])]
        tail == Len(s) % 4
        bad  == \/ \E i \in 1..Len(s) : v[i] < 0
                \/ tail = 1
                \/ tail = 2 /\ v[Len(s)] % 16 # 0
                \/ tail = 3 /\ v[Len(s)] % 4 # 0
    IN IF bad THEN [ok |-> FALSE, bytes |-> <<>>] ELSE [ok |-> TRUE, bytes |-> B64Bytes(v)]

\* DeviceIdentity::public_key_b64
public_key_b64(identity) == B64Encode(verifying_key(identity))

\* VerifyingKey::from_bytes: the bytes are the verifying key of some signing key
IsVerifyingKey(key) == \E identity \in Identities : key = verifying_key(identity)

\* the signature the owner of the verifying key produces for the message
Signature(key, message) == [signer |-> key, message |-> message]

\* DeviceIdentity::sign
sign(identity, message) == Signature(verifying_key(identity), message)

\* identity::verify_signature
verify_signature(public_key_b64_, message, signature) ==
    LET pk_bytes == B64Decode(public_key_b64_)
    IN IF ~pk_bytes.ok THEN [result |-> Err("InvalidBase64"), valid |-> FALSE]
       ELSE IF Len(pk_bytes.bytes) # KeyLen THEN [result |-> Err("InvalidKey"), valid |-> FALSE]
       ELSE IF ~IsVerifyingKey(pk_bytes.bytes) THEN [result |-> Err("InvalidKey"), valid |-> FALSE]
       ELSE [result |-> Ok, valid |-> signature = Signature(pk_bytes.bytes, message)]

---------------------------------------------------------------------------
(* crates/handshake: ClientHello and ServerHello *)

EncryptionModes == {"Off", "Optional", "Required"}

\* EncryptionMode::as_u8
as_u8(mode) ==
    CASE mode = "Off"      -> 0
      [] mode = "Optional" -> 1
      [] mode = "Required" -> 2

\* HandshakeCapabilities
Capabilities == [supports_encryption : BOOLEAN, preferred_encryption_mode : EncryptionModes]

\* HandshakeCapabilities::default
DefaultCapabilities == [supports_encryption |-> FALSE, preferred_encryption_mode |-> "Off"]

\* the w low bytes of n, most significant first
RECURSIVE BEBytes(_, _)
BEBytes(n, w) == IF w = 0 THEN <<>> ELSE Append(BEBytes(n \div 256, w - 1), n % 256)

\* u64::to_be_bytes
to_be_bytes(n) == BEBytes(n, 8)

\* bool as u8
BoolU8(b) == IF b THEN 1 ELSE 0

\* b"p2p/client-hello/v1"
ClientHelloLabel ==
    <<112, 50, 112, 47, 99, 108, 105, 101, 110, 116, 45, 104, 101, 108, 108, 111, 47, 118, 49>>

\* b"p2p/server-hello/v1"
ServerHelloLabel ==
    <<112, 50, 112, 47, 115, 101, 114, 118, 101, 114, 45, 104, 101, 108, 108, 111, 47, 118, 49>>

client_hello_signing_bytes_no_capabilities(device_id, public_key, nonce, timestamp_secs, capabilities) ==
    ClientHelloLabel \o device_id \o public_key \o nonce \o to_be_bytes(timestamp_secs)

client_hello_signing_bytes(device_id, public_key, nonce, timestamp_secs, capabilities) ==
    ClientHelloLabel \o device_id \o public_key \o nonce \o to_be_bytes(timestamp_secs)
        \o <<BoolU8(capabilities.supports_encryption)>>
        \o <<as_u8(capabilities.preferred_encryption_mode)>>

server_hello_signing_bytes(device_id, public_key, client_nonce, server_nonce, timestamp_secs, capabilities) ==
    ServerHelloLabel \o device_id \o public_key \o client_nonce \o server_nonce
        \o to_be_bytes(timestamp_secs)
        \o <<BoolU8(capabilities.supports_encryption)>>
        \o <<as_u8(capabilities.preferred_encryption_mode)>>

is_skewed_past_only(msg_ts, now, max_skew) == now - msg_ts > max_skew

is_skewed(msg_ts, now, max_skew) ==
    IF msg_ts > now THEN msg_ts - now > max_skew ELSE now - msg_ts > max_skew

\* HandshakeError::Identity(IdentityError)
Identity(e) ==
    CASE e = "InvalidBase64" -> "Identity(InvalidBase64)"
      [] e = "InvalidKey"    -> "Identity(InvalidKey)"

\* create_client_hello_with_capabilities; nonce is what random_nonce() returned,
\* timestamp_secs what now_unix() returned
create_client_hello_with_capabilities(device_id, identity, capabilities, nonce, timestamp_secs) ==
    LET public_key == public_key_b64(identity)
        to_sign    == client_hello_signing_bytes(device_id, public_key, nonce, timestamp_secs,
                                                 capabilities)
    IN [device_id      |-> device_id,
        public_key_b64 |-> public_key,
        nonce          |-> nonce,
        timestamp_secs |-> timestamp_secs,
        capabilities   |-> capabilities,
        signature      |-> sign(identity, to_sign)]

create_client_hello(device_id, identity, nonce, timestamp_secs) ==
    create_client_hello_with_capabilities(device_id, identity, DefaultCapabilities, nonce,
                                          timestamp_secs)

verify_client_hello(hello, max_skew_secs, now_secs) ==
    IF is_skewed(hello.timestamp_secs, now_secs, max_skew_secs) THEN Err("TimestampSkew")
    ELSE LET data  == client_hello_signing_bytes(hello.device_id, hello.public_key_b64,
                                                 hello.nonce, hello.timestamp_secs,
                                                 hello.capabilities)
             valid == verify_signature(hello.public_key_b64, data, hello.signature)
         IN IF ~valid.result.ok THEN Err(Identity(valid.result.err))
            ELSE IF ~valid.valid THEN Err("InvalidSignature")
            ELSE Ok

\* create_server_hello_with_capabilities; server_nonce is what random_nonce()
\* returned, timestamp_secs what now_unix() returned
create_server_hello_with_capabilities(device_id, server_identity, client_hello, capabilities, server_nonce, timestamp_secs) ==
    LET public_key == public_key_b64(server_identity)
        data       == server_hello_signing_bytes(device_id, public_key, client_hello.nonce,
                                                 server_nonce, timestamp_secs, capabilities)
    IN [device_id      |-> device_id,
        public_key_b64 |-> public_key,
        client_nonce   |-> client_hello.nonce,
        server_nonce   |-> server_nonce,
        timestamp_secs |-> timestamp_secs,
        capabilities   |-> capabilities,
        signature      |-> sign(server_identity, data)]

create_server_hello(device_id, server_identity, client_hello, server_nonce, timestamp_secs) ==
    create_server_hello_with_capabilities(device_id, server_identity, client_hello,
                                          DefaultCapabilities, server_nonce, timestamp_secs)

verify_server_hello_skew_first(expected_client_nonce, hello, max_skew_secs, now_secs) ==
    IF is_skewed(hello.timestamp_secs, now_secs, max_skew_secs) THEN Err("TimestampSkew")
    ELSE IF hello.client_nonce # expected_client_nonce THEN Err("NonceMismatch")
    ELSE LET data  == server_hello_signing_bytes(hello.device_id, hello.public_key_b64,
                                                 hello.client_nonce, hello.server_nonce,
                                                 hello.timestamp_secs, hello.capabilities)
             valid == verify_signature(hello.public_key_b64, data, hello.signature)
         IN IF ~valid.result.ok THEN Err(Identity(valid.result.err))
            ELSE IF ~valid.valid THEN Err("InvalidSignature")
            ELSE Ok

verify_server_hello(expected_client_nonce, hello, max_skew_secs, now_secs) ==
    IF hello.client_nonce # expected_client_nonce THEN Err("NonceMismatch")
    ELSE IF is_skewed(hello.timestamp_secs, now_secs, max_skew_secs) THEN Err("TimestampSkew")
    ELSE LET data  == server_hello_signing_bytes(hello.device_id, hello.public_key_b64,
                                                 hello.client_nonce, hello.server_nonce,
                                                 hello.timestamp_secs, hello.capabilities)
             valid == verify_signature(hello.public_key_b64, data, hello.signature)
         IN IF ~valid.result.ok THEN Err(Identity(valid.result.err))
            ELSE IF ~valid.valid THEN Err("InvalidSignature")
            ELSE Ok

\* no hello: the fields of a hello, empty
NoSignature == [signer |-> <<>>, message |-> <<>>]

NoClientHello ==
    [device_id |-> <<>>, public_key_b64 |-> <<>>, nonce |-> <<>>, timestamp_secs |-> 0,
     capabilities |-> DefaultCapabilities, signature |-> NoSignature]

NoServerHello ==
    [device_id |-> <<>>, public_key_b64 |-> <<>>, client_nonce |-> <<>>, server_nonce |-> <<>>,
     timestamp_secs |-> 0, capabilities |-> DefaultCapabilities, signature |-> NoSignature]

NoHelloCall ==
    [op |-> "none", expected_client_nonce |-> <<>>, max_skew_secs |-> 0, now_secs |-> 0,
     result |-> Ok]

---------------------------------------------------------------------------
(* crates/handshake: negotiate_encryption *)

\* EncryptionMode::from_u8
from_u8(v) ==
    CASE v = 0 -> [result |-> Ok, mode |-> "Off"]
      [] v = 1 -> [result |-> Ok, mode |-> "Optional"]
      [] v = 2 -> [result |-> Ok, mode |-> "Required"]
      [] OTHER -> [result |-> Err("InvalidCapabilities"), mode |-> "Off"]

validate_capabilities_any(capabilities) == Ok

validate_capabilities(capabilities) ==
    IF ~from_u8(as_u8(capabilities.preferred_encryption_mode)).result.ok
    THEN Err("InvalidCapabilities")
    ELSE IF ~capabilities.supports_encryption /\ capabilities.preferred_encryption_mode # "Off"
    THEN Err("InvalidCapabilities")
    ELSE Ok

\* NegotiatedEncryption
Negotiated(enabled, mode) == [result |-> Ok, negotiated |-> [enabled |-> enabled, mode |-> mode]]

\* Err(e): no NegotiatedEncryption
NotNegotiatedFor(e) == [result |-> Err(e), negotiated |-> [enabled |-> FALSE, mode |-> "Off"]]

negotiate_encryption_client_decides(client, server) ==
    IF ~validate_capabilities(client).ok THEN NotNegotiatedFor(validate_capabilities(client).err)
    ELSE IF ~validate_capabilities(server).ok
    THEN NotNegotiatedFor(validate_capabilities(server).err)
    ELSE LET requires     == client.preferred_encryption_mode = "Required"
             both_support == client.supports_encryption /\ server.supports_encryption
         IN IF requires /\ ~both_support
            THEN NotNegotiatedFor("EncryptionRequiredButUnsupported")
            ELSE IF ~both_support THEN Negotiated(FALSE, "Off")
            ELSE IF requires THEN Negotiated(TRUE, "Required")
            ELSE IF client.preferred_encryption_mode = "Optional" THEN Negotiated(TRUE, "Optional")
            ELSE Negotiated(FALSE, "Off")

\* negotiate_encryption going on without encryption where the peer cannot encrypt
negotiate_encryption_fail_open(client, server) ==
    IF ~validate_capabilities(client).ok THEN NotNegotiatedFor(validate_capabilities(client).err)
    ELSE IF ~validate_capabilities(server).ok
    THEN NotNegotiatedFor(validate_capabilities(server).err)
    ELSE LET either_requires == \/ client.preferred_encryption_mode = "Required"
                                \/ server.preferred_encryption_mode = "Required"
             both_support    == client.supports_encryption /\ server.supports_encryption
         IN IF ~both_support THEN Negotiated(FALSE, "Off")
            ELSE IF either_requires THEN Negotiated(TRUE, "Required")
            ELSE IF \/ client.preferred_encryption_mode = "Optional"
                    \/ server.preferred_encryption_mode = "Optional"
            THEN Negotiated(TRUE, "Optional")
            ELSE Negotiated(FALSE, "Off")

negotiate_encryption(client, server) ==
    IF ~validate_capabilities(client).ok THEN NotNegotiatedFor(validate_capabilities(client).err)
    ELSE IF ~validate_capabilities(server).ok
    THEN NotNegotiatedFor(validate_capabilities(server).err)
    ELSE LET either_requires == \/ client.preferred_encryption_mode = "Required"
                                \/ server.preferred_encryption_mode = "Required"
             both_support    == client.supports_encryption /\ server.supports_encryption
         IN IF either_requires /\ ~both_support
            THEN NotNegotiatedFor("EncryptionRequiredButUnsupported")
            ELSE IF ~both_support THEN Negotiated(FALSE, "Off")
            ELSE IF either_requires THEN Negotiated(TRUE, "Required")
            ELSE IF \/ client.preferred_encryption_mode = "Optional"
                    \/ server.preferred_encryption_mode = "Optional"
            THEN Negotiated(TRUE, "Optional")
            ELSE Negotiated(FALSE, "Off")

NoNegotiateArgs == [client |-> DefaultCapabilities, server |-> DefaultCapabilities]
NotNegotiated   == NotNegotiatedFor("Pending")

---------------------------------------------------------------------------
(* crates/handshake: derive_session_keys.                                   *)
(* SHA-256 is taken as collision-free: a digest stands for the bytes that   *)
(* were hashed, so two digests are equal exactly when the hashed bytes are. *)

\* Sha256::new() .. update(..) .. finalize()
Sha256(bytes) == [sha256_of |-> bytes]

\* b"p2p/c2s"
C2SLabel == <<112, 50, 112, 47, 99, 50, 115>>

\* b"p2p/s2c"
S2CLabel == <<112, 50, 112, 47, 115, 50, 99>>

\* derive_key_material hashing a secret of the two peers after the public values
derive_key_material_with_secret(label, client_public_key_b64, server_public_key_b64, client_nonce, server_nonce) ==
    Sha256(label \o client_public_key_b64 \o server_public_key_b64 \o client_nonce
               \o server_nonce \o <<1, 2>>)

derive_key_material(label, client_public_key_b64, server_public_key_b64, client_nonce, server_nonce) ==
    Sha256(label \o client_public_key_b64 \o server_public_key_b64 \o client_nonce
               \o server_nonce)

derive_session_keys_same_direction(client_public_key_b64, server_public_key_b64, client_nonce, server_nonce, is_client) ==
    LET c2s == derive_key_material(C2SLabel, client_public_key_b64, server_public_key_b64,
                                   client_nonce, server_nonce)
        s2c == derive_key_material(S2CLabel, client_public_key_b64, server_public_key_b64,
                                   client_nonce, server_nonce)
    IN [tx_key |-> c2s, rx_key |-> s2c]

derive_session_keys(client_public_key_b64, server_public_key_b64, client_nonce, server_nonce, is_client) ==
    LET c2s == derive_key_material(C2SLabel, client_public_key_b64, server_public_key_b64,
                                   client_nonce, server_nonce)
        s2c == derive_key_material(S2CLabel, client_public_key_b64, server_public_key_b64,
                                   client_nonce, server_nonce)
    IN IF is_client THEN [tx_key |-> c2s, rx_key |-> s2c]
       ELSE [tx_key |-> s2c, rx_key |-> c2s]

NoKey == Sha256(<<>>)

NotDerived ==
    [done |-> FALSE, client_public_key_b64 |-> <<>>, server_public_key_b64 |-> <<>>,
     client_nonce |-> <<>>, server_nonce |-> <<>>, is_client |-> FALSE,
     keys |-> [tx_key |-> NoKey, rx_key |-> NoKey]]

---------------------------------------------------------------------------
(* transfer: the chunk frames of the two wire versions *)

\* b"P2PF" and b"P2PE"
MAGIC_V1 == <<80, 50, 80, 70>>
MAGIC_V2 == <<80, 50, 80, 69>>

\* u16::MAX, the longest aad a v2 frame can announce
U16Max == 65535

\* uN::from_be_bytes
RECURSIVE from_be_bytes(_)
from_be_bytes(bytes) ==
    IF bytes = <<>> THEN 0
    ELSE from_be_bytes(SubSeq(bytes, 1, Len(bytes) - 1)) * 256 + bytes[Len(bytes)]

\* TransferError::InvalidFrame(msg), TransferError::Crypto(msg) and a result without error
InvalidFrame(msg) == [ok |-> FALSE, err |-> "InvalidFrame", msg |-> msg]
Crypto(msg)       == [ok |-> FALSE, err |-> "Crypto", msg |-> msg]
FrameOk           == [ok |-> TRUE, err |-> "None", msg |-> ""]

\* TransferChunk::encode; payload lengths stay below 2^32, where try_from succeeds
TransferChunk_encode(c) ==
    LET payload_len == Len(c.payload)
    IN MAGIC_V1 \o BEBytes(c.transfer_id, 8) \o BEBytes(c.chunk_index, 4)
         \o BEBytes(c.total_chunks, 4) \o BEBytes(payload_len, 4)
         \o SubSeq(c.payload, 1, payload_len)

\* TransferChunk::decode
TransferChunk_decode(bytes) ==
    IF Len(bytes) < 24 \/ Slice(bytes, 0, 4) # MAGIC_V1
    THEN [result |-> InvalidFrame("bad header"), chunk |-> NoChunk]
    ELSE LET transfer_id  == from_be_bytes(Slice(bytes, 4, 12))
             chunk_index  == from_be_bytes(Slice(bytes, 12, 16))
             total_chunks == from_be_bytes(Slice(bytes, 16, 20))
             payload_len  == from_be_bytes(Slice(bytes, 20, 24))
         IN IF Len(bytes) # 24 + payload_len
            THEN [result |-> InvalidFrame("invalid payload length"), chunk |-> NoChunk]
            ELSE IF total_chunks = 0 \/ chunk_index >= total_chunks
            THEN [result |-> InvalidFrame("invalid chunk bounds"), chunk |-> NoChunk]
            ELSE [result |-> FrameOk,
                  chunk  |-> [transfer_id  |-> transfer_id,
                              chunk_index  |-> chunk_index,
                              total_chunks |-> total_chunks,
                              payload      |-> Slice(bytes, 24, Len(bytes))]]

\* EncryptionFlag::as_u8
flag_as_u8(flag) == CASE flag = "Plaintext" -> 0 [] flag = "Encrypted" -> 1

\* from_u8 reading every byte but 0 as Encrypted
flag_from_u8_nonzero(v) ==
    IF v = 0 THEN [result |-> FrameOk, flag |-> "Plaintext"]
    ELSE [result |-> FrameOk, flag |-> "Encrypted"]

\* EncryptionFlag::from_u8
flag_from_u8(v) ==
    CASE v = 0 -> [result |-> FrameOk, flag |-> "Plaintext"]
      [] v = 1 -> [result |-> FrameOk, flag |-> "Encrypted"]
      [] OTHER -> [result |-> InvalidFrame("invalid encryption flag"), flag |-> "Plaintext"]

NoNonce12 == [i \in 1..12 |-> 0]

NoChunkV2 ==
    [protocol_version |-> 0, encryption_flag |-> "Plaintext", transfer_id |-> 0,
     chunk_index |-> 0, total_chunks |-> 0, nonce |-> NoNonce12, aad |-> <<>>,
     payload |-> <<>>]

\* TransferChunkV2::encode; payload lengths stay below 2^32, where try_from succeeds
TransferChunkV2_encode(c) ==
    LET aad_len     == IF Len(c.aad) <= U16Max THEN Len(c.aad) ELSE U16Max
        payload_len == Len(c.payload)
    IN MAGIC_V2 \o <<c.protocol_version>> \o <<flag_as_u8(c.encryption_flag)>>
         \o BEBytes(c.transfer_id, 8) \o BEBytes(c.chunk_index, 4)
         \o BEBytes(c.total_chunks, 4) \o c.nonce \o BEBytes(aad_len, 2)
         \o BEBytes(payload_len, 4) \o SubSeq(c.aad, 1, aad_len)
         \o SubSeq(c.payload, 1, payload_len)

\* 4 + 1 + 1 + 8 + 4 + 4 + 12 + 2 + 4
min_header == 40

\* TransferChunkV2::decode
TransferChunkV2_decode(bytes) ==
    IF Len(bytes) < min_header \/ Slice(bytes, 0, 4) # MAGIC_V2
    THEN [result |-> InvalidFrame("bad v2 header"), chunk |-> NoChunkV2]
    ELSE LET protocol_version == bytes[5]
             encryption_flag  == flag_from_u8(bytes[6])
             transfer_id      == from_be_bytes(Slice(bytes, 6, 14))
             chunk_index      == from_be_bytes(Slice(bytes, 14, 18))
             total_chunks     == from_be_bytes(Slice(bytes, 18, 22))
             aad_len          == from_be_bytes(Slice(bytes, 34, 36))
             payload_len      == from_be_bytes(Slice(bytes, 36, 40))
             payload_start    == min_header + aad_len
         IN IF ~encryption_flag.result.ok
            THEN [result |-> encryption_flag.result, chunk |-> NoChunkV2]
            ELSE IF protocol_version # 2
            THEN [result |-> InvalidFrame("unsupported protocol version"), chunk |-> NoChunkV2]
            ELSE IF total_chunks = 0 \/ chunk_index >= total_chunks
            THEN [result |-> InvalidFrame("invalid chunk bounds"), chunk |-> NoChunkV2]
            ELSE IF Len(bytes) # min_header + aad_len + payload_len
            THEN [result |-> InvalidFrame("invalid payload length"), chunk |-> NoChunkV2]
            ELSE [result |-> FrameOk,
                  chunk  |-> [protocol_version |-> protocol_version,
                              encryption_flag  |-> encryption_flag.flag,
                              transfer_id      |-> transfer_id,
                              chunk_index      |-> chunk_index,
                              total_chunks     |-> total_chunks,
                              nonce            |-> Slice(bytes, 22, 34),
                              aad              |-> Slice(bytes, min_header, payload_start),
                              payload          |-> Slice(bytes, payload_start, Len(bytes))]]

NoVersioned == [result |-> FrameOk, version |-> "None", v1 |-> NoChunk, v2 |-> NoChunkV2]

\* VersionedTransferChunk::decode knowing the v1 magic only
VersionedTransferChunk_decode_v1_only(bytes) ==
    IF Len(bytes) < 4 \/ Slice(bytes, 0, 4) # MAGIC_V1
    THEN [NoVersioned EXCEPT !.result = InvalidFrame("bad header")]
    ELSE LET v1 == TransferChunk_decode(bytes)
         IN IF v1.result.ok
            THEN [NoVersioned EXCEPT !.version = "V1", !.v1 = v1.chunk]
            ELSE [NoVersioned EXCEPT !.result = v1.result]

\* VersionedTransferChunk::decode
VersionedTransferChunk_decode(bytes) ==
    IF Len(bytes) < 4
    THEN [NoVersioned EXCEPT !.result = InvalidFrame("bad header")]
    ELSE IF Slice(bytes, 0, 4) = MAGIC_V1
    THEN LET v1 == TransferChunk_decode(bytes)
         IN IF v1.result.ok
            THEN [NoVersioned EXCEPT !.version = "V1", !.v1 = v1.chunk]
            ELSE [NoVersioned EXCEPT !.result = v1.result]
    ELSE IF Slice(bytes, 0, 4) = MAGIC_V2
    THEN LET v2 == TransferChunkV2_decode(bytes)
         IN IF v2.result.ok
            THEN [NoVersioned EXCEPT !.version = "V2", !.v2 = v2.chunk]
            ELSE [NoVersioned EXCEPT !.result = v2.result]
    ELSE [NoVersioned EXCEPT !.result = InvalidFrame("bad header")]

---------------------------------------------------------------------------
(* crypto_envelope: nonce derivation and the keystream-and-tag envelope *)

\* ^ on two u8, bit by bit
RECURSIVE XorBits(_, _, _)
XorBits(a, b, bits) ==
    IF bits = 0 THEN 0
    ELSE 2 * XorBits(a \div 2, b \div 2, bits - 1) + ((a + b) % 2)
XorTable == [a \in 0..255 |-> [b \in 0..255 |-> XorBits(a, b, 8)]]
Xor(a, b) == XorTable[a][b]

\* 2^n for the shifts of a u8
RECURSIVE Pow2(_)
Pow2(n) == IF n = 0 THEN 1 ELSE 2 * Pow2(n - 1)

\* u8::rotate_left and u8::rotate_right
rotate_left(b, n)  == ((b * Pow2(n % 8)) % 256) + (b \div Pow2(8 - (n % 8)))
rotate_right(b, n) == rotate_left(b, 8 - (n % 8))

\* u8::wrapping_add, u8::wrapping_mul and `as u8`
wrapping_add(a, b) == (a + b) % 256
wrapping_mul(a, b) == (a * b) % 256
as_u8_cast(n)      == n % 256

Directions == {"SenderToReceiver", "ReceiverToSender"}

\* derive_nonce keeping the low two bytes of chunk_index only
derive_nonce_two_bytes(transfer_id, chunk_index, direction) ==
    BEBytes(transfer_id, 8) \o <<0>> \o SubSeq(BEBytes(chunk_index, 4), 3, 4)
       \o << CASE direction = "SenderToReceiver" -> 1
               [] direction = "ReceiverToSender" -> 2 >>

\* derive_nonce
derive_nonce(transfer_id, chunk_index, direction) ==
    BEBytes(transfer_id, 8) \o SubSeq(BEBytes(chunk_index, 4), 2, 4)
       \o << CASE direction = "SenderToReceiver" -> 1
               [] direction = "ReceiverToSender" -> 2 >>

\* keystream_byte; index counts from 0
keystream_byte(key, nonce, index) ==
    LET k == key[(index % Len(key)) + 1]
        n == nonce[(index % Len(nonce)) + 1]
        i == wrapping_mul(as_u8_cast(index), 31)
    IN Xor(Xor(rotate_left(k, 1), rotate_right(n, 1)), i)

\* the four loops of compute_tag: each folds the bytes 0..n-1 of one input into tag
RECURSIVE TagKey(_, _, _)
TagKey(tag, key, n) ==
    IF n = 0 THEN tag
    ELSE Xor(TagKey(tag, key, n - 1),
             wrapping_add(key[n], wrapping_mul(as_u8_cast(n - 1), 3)))

RECURSIVE TagNonce(_, _, _)
TagNonce(tag, nonce, n) ==
    IF n = 0 THEN tag
    ELSE Xor(TagNonce(tag, nonce, n - 1), rotate_left(nonce[n], (n - 1) % 8))

RECURSIVE TagAad(_, _, _)
TagAad(tag, aad, n) ==
    IF n = 0 THEN tag
    ELSE wrapping_add(TagAad(tag, aad, n - 1),
                      wrapping_mul(aad[n], Max(as_u8_cast(n - 1) % 17, 1)))

RECURSIVE TagPlaintext(_, _, _)
TagPlaintext(tag, plaintext, n) ==
    IF n = 0 THEN tag
    ELSE Xor(TagPlaintext(tag, plaintext, n - 1),
             wrapping_add(plaintext[n], wrapping_mul(as_u8_cast(n - 1), 7)))

\* compute_tag: the four loops one after the other, each starting from the u8 the
\* loop before it left in tag
compute_tag(key, nonce, aad, plaintext) ==
    LET after_key   == TagKey(0, key, Len(key))
        after_nonce == TagNonce(after_key, nonce, Len(nonce))
        after_aad   == TagAad(after_nonce, aad, Len(aad))
    IN IF {after_key, after_nonce, after_aad} \subseteq 0..255
       THEN TagPlaintext(after_aad, plaintext, Len(plaintext))
       ELSE 0

\* the loop of encrypt and of decrypt: every byte xored with its keystream byte
XorKeystream(key, nonce, bytes) ==
    [idx \in 1..Len(bytes) |-> Xor(bytes[idx], keystream_byte(key, nonce, idx - 1))]

\* encrypt_chunk_with_aad
encrypt_chunk_with_aad(key, nonce, plaintext, aad) ==
    IF plaintext = <<>>
    THEN <<compute_tag(key, nonce, aad, plaintext)>>
    ELSE Append(XorKeystream(key, nonce, plaintext), compute_tag(key, nonce, aad, plaintext))

NoPlaintext == [ok |-> FALSE, err |-> "None", plaintext |-> <<>>]
DecryptionFailure == [ok |-> FALSE, err |-> "DecryptionFailure", plaintext |-> <<>>]
Decrypted(plaintext) == [ok |-> TRUE, err |-> "None", plaintext |-> plaintext]

\* decrypt_chunk_with_aad taking the tag over the ciphertext bytes
decrypt_chunk_with_aad_tag_of_ciphertext(key, nonce, ciphertext, aad) ==
    IF ciphertext = <<>>
    THEN DecryptionFailure
    ELSE LET cipher_payload == SubSeq(ciphertext, 1, Len(ciphertext) - 1)
             tag            == ciphertext[Len(ciphertext)]
         IN IF tag # compute_tag(key, nonce, aad, cipher_payload)
            THEN DecryptionFailure
            ELSE Decrypted(XorKeystream(key, nonce, cipher_payload))

\* decrypt_chunk_with_aad
decrypt_chunk_with_aad(key, nonce, ciphertext, aad) ==
    IF ciphertext = <<>>
    THEN DecryptionFailure
    ELSE LET cipher_payload == SubSeq(ciphertext, 1, Len(ciphertext) - 1)
             tag            == ciphertext[Len(ciphertext)]
             plaintext      == XorKeystream(key, nonce, cipher_payload)
             expected_tag   == compute_tag(key, nonce, aad, plaintext)
         IN IF tag # expected_tag
            THEN DecryptionFailure
            ELSE Decrypted(plaintext)

\* encrypt_chunk and decrypt_chunk: the envelope without aad
encrypt_chunk(key, nonce, plaintext)  == encrypt_chunk_with_aad(key, nonce, plaintext, <<>>)
decrypt_chunk(key, nonce, ciphertext) == decrypt_chunk_with_aad(key, nonce, ciphertext, <<>>)

---------------------------------------------------------------------------
(* transfer: the adapters between a v1 chunk and an encrypted v2 frame *)

\* an aad of the transfer_id and the chunk_index alone
transfer_chunk_aad_without_total(chunk) ==
    BEBytes(chunk.transfer_id, 8) \o BEBytes(chunk.chunk_index, 4)

\* transfer_chunk_aad
transfer_chunk_aad(chunk) ==
    BEBytes(chunk.transfer_id, 8) \o BEBytes(chunk.chunk_index, 4)
       \o BEBytes(chunk.total_chunks, 4)

\* encrypt_chunk_frame binding the aad into the tag
encrypt_chunk_frame_with_aad(chunk, session_tx_key) ==
    LET nonce == derive_nonce(chunk.transfer_id, chunk.chunk_index, "SenderToReceiver")
        aad   == transfer_chunk_aad(chunk)
    IN [result |-> FrameOk,
        frame  |-> [protocol_version |-> 2,
                    encryption_flag  |-> "Encrypted",
                    transfer_id      |-> chunk.transfer_id,
                    chunk_index      |-> chunk.chunk_index,
                    total_chunks     |-> chunk.total_chunks,
                    nonce            |-> nonce,
                    aad              |-> aad,
                    payload          |-> encrypt_chunk_with_aad(session_tx_key, nonce,
                                                                chunk.payload, aad)]]

\* encrypt_chunk_frame; encrypt_chunk has no failing path, so map_err never applies
encrypt_chunk_frame(chunk, session_tx_key) ==
    LET nonce      == derive_nonce(chunk.transfer_id, chunk.chunk_index, "SenderToReceiver")
        aad        == transfer_chunk_aad(chunk)
        ciphertext == encrypt_chunk(session_tx_key, nonce, chunk.payload)
    IN [result |-> FrameOk,
        frame  |-> [protocol_version |-> 2,
                    encryption_flag  |-> "Encrypted",
                    transfer_id      |-> chunk.transfer_id,
                    chunk_index      |-> chunk.chunk_index,
                    total_chunks     |-> chunk.total_chunks,
                    nonce            |-> nonce,
                    aad              |-> aad,
                    payload          |-> ciphertext]]

\* decrypt_chunk_frame decrypting before it looks at the flag
decrypt_chunk_frame_decrypt_first(frame, session_rx_key) ==
    LET plaintext == decrypt_chunk(session_rx_key, frame.nonce, frame.payload)
    IN IF ~plaintext.ok
       THEN [result |-> Crypto("failed to decrypt chunk payload"), chunk |-> NoChunk]
       ELSE IF frame.encryption_flag # "Encrypted"
       THEN [result |-> InvalidFrame("expected encrypted frame"), chunk |-> NoChunk]
       ELSE [result |-> FrameOk,
             chunk  |-> [transfer_id  |-> frame.transfer_id,
                         chunk_index  |-> frame.chunk_index,
                         total_chunks |-> frame.total_chunks,
                         payload      |-> plaintext.plaintext]]

\* decrypt_chunk_frame
decrypt_chunk_frame(frame, session_rx_key) ==
    IF frame.encryption_flag # "Encrypted"
    THEN [result |-> InvalidFrame("expected encrypted frame"), chunk |-> NoChunk]
    ELSE LET plaintext == decrypt_chunk(session_rx_key, frame.nonce, frame.payload)
         IN IF ~plaintext.ok
            THEN [result |-> Crypto("failed to decrypt chunk payload"), chunk |-> NoChunk]
            ELSE [result |-> FrameOk,
                  chunk  |-> [transfer_id  |-> frame.transfer_id,
                              chunk_index  |-> frame.chunk_index,
                              total_chunks |-> frame.total_chunks,
                              payload      |-> plaintext.plaintext]]

---------------------------------------------------------------------------
(* nat_traversal: the choice between a direct and a relayed route *)

NatTypes ==
    {"OpenInternet", "FullCone", "RestrictedCone", "PortRestrictedCone", "Symmetric", "Unknown"}

\* Option<SocketAddr>
None       == [some |-> FALSE, addr |-> ""]
Some(addr) == [some |-> TRUE, addr |-> addr]
is_some(o) == o.some

\* gather_candidates
gather_candidates(local_candidate, stun_reflexive_candidate, relay_candidate) ==
    [local_candidate          |-> local_candidate,
     stun_reflexive_candidate |-> stun_reflexive_candidate,
     relay_candidate          |-> relay_candidate]

\* the reason texts of decide_route as bytes
\* "symmetric NAT detected; using relay"
ReasonSymmetricRelay ==
    <<115, 121, 109, 109, 101, 116, 114, 105, 99, 32, 78, 65, 84, 32, 100, 101, 116,
      101, 99, 116, 101, 100, 59, 32, 117, 115, 105, 110, 103, 32, 114, 101, 108, 97,
      121>>

\* "symmetric NAT detected but relay unavailable; try direct best-effort"
ReasonSymmetricDirect ==
    <<115, 121, 109, 109, 101, 116, 114, 105, 99, 32, 78, 65, 84, 32, 100, 101, 116,
      101, 99, 116, 101, 100, 32, 98, 117, 116, 32, 114, 101, 108, 97, 121, 32, 117,
      110, 97, 118, 97, 105, 108, 97, 98, 108, 101, 59, 32, 116, 114, 121, 32, 100,
      105, 114, 101, 99, 116, 32, 98, 101, 115, 116, 45, 101, 102, 102, 111, 114, 116>>

\* "both peers have reflexive candidates"
ReasonReflexive ==
    <<98, 111, 116, 104, 32, 112, 101, 101, 114, 115, 32, 104, 97, 118, 101, 32, 114,
      101, 102, 108, 101, 120, 105, 118, 101, 32, 99, 97, 110, 100, 105, 100, 97, 116,
      101, 115>>

\* "insufficient direct candidates; fallback to relay"
ReasonFallbackRelay ==
    <<105, 110, 115, 117, 102, 102, 105, 99, 105, 101, 110, 116, 32, 100, 105, 114,
      101, 99, 116, 32, 99, 97, 110, 100, 105, 100, 97, 116, 101, 115, 59, 32, 102, 97,
      108, 108, 98, 97, 99, 107, 32, 116, 111, 32, 114, 101, 108, 97, 121>>

\* "default direct route"
ReasonDefault ==
    <<100, 101, 102, 97, 117, 108, 116, 32, 100, 105, 114, 101, 99, 116, 32, 114, 111,
      117, 116, 101>>

\* decide_route looking at the reflexive candidates before the NAT types
decide_route_reflexive_first(local_nat, remote_nat, local, remote) ==
    LET both_have_reflexive == /\ is_some(local.stun_reflexive_candidate)
                               /\ is_some(remote.stun_reflexive_candidate)
        any_symmetric       == local_nat = "Symmetric" \/ remote_nat = "Symmetric"
        any_relay           == is_some(local.relay_candidate) \/ is_some(remote.relay_candidate)
    IN IF both_have_reflexive
       THEN [route |-> "Direct", reason |-> ReasonReflexive]
       ELSE IF any_symmetric
       THEN IF any_relay
            THEN [route |-> "Relay", reason |-> ReasonSymmetricRelay]
            ELSE [route |-> "Direct", reason |-> ReasonSymmetricDirect]
       ELSE IF any_relay
       THEN [route |-> "Relay", reason |-> ReasonFallbackRelay]
       ELSE [route |-> "Direct", reason |-> ReasonDefault]

\* decide_route
decide_route(local_nat, remote_nat, local, remote) ==
    LET both_have_reflexive == /\ is_some(local.stun_reflexive_candidate)
                               /\ is_some(remote.stun_reflexive_candidate)
        any_symmetric       == local_nat = "Symmetric" \/ remote_nat = "Symmetric"
    IN IF any_symmetric
       THEN IF is_some(local.relay_candidate) \/ is_some(remote.relay_candidate)
            THEN [route |-> "Relay", reason |-> ReasonSymmetricRelay]
            ELSE [route |-> "Direct", reason |-> ReasonSymmetricDirect]
       ELSE IF both_have_reflexive
       THEN [route |-> "Direct", reason |-> ReasonReflexive]
       ELSE IF is_some(local.relay_candidate) \/ is_some(remote.relay_candidate)
       THEN [route |-> "Relay", reason |-> ReasonFallbackRelay]
       ELSE [route |-> "Direct", reason |-> ReasonDefault]

---------------------------------------------------------------------------
(* lan_offline: which peer addresses the offline guard lets through *)

\* LanPolicy and LanPolicy::default
LanPolicies ==
    [allow_loopback : BOOLEAN, allow_link_local : BOOLEAN, allow_private : BOOLEAN,
     deny_public : BOOLEAN]
DefaultPolicy ==
    [allow_loopback |-> TRUE, allow_link_local |-> TRUE, allow_private |-> TRUE,
     deny_public |-> TRUE]

\* PolicyDecision
Allow        == [allow |-> TRUE, reason |-> ""]
Deny(reason) == [allow |-> FALSE, reason |-> reason]

\* IpAddr::V4 of four octets, IpAddr::V6 of eight segments, and a SocketAddr
V4(a, b, c, d) == [v |-> 4, parts |-> <<a, b, c, d>>]
V6(segments)   == [v |-> 6, parts |-> segments]
SocketAddr(ip, port) == [ip |-> ip, port |-> port]

\* & on two u16, bit by bit
RECURSIVE BitAndBits(_, _, _)
BitAndBits(a, b, bits) ==
    IF bits = 0 THEN 0
    ELSE 2 * BitAndBits(a \div 2, b \div 2, bits - 1) + ((a % 2) * (b % 2))
BitAnd(a, b) == BitAndBits(a, b, 16)

\* IpAddr::is_loopback of the standard library: 127.0.0.0/8 and ::1
is_loopback(ip) ==
    IF ip.v = 4 THEN ip.parts[1] = 127
    ELSE ip.parts = <<0, 0, 0, 0, 0, 0, 0, 1>>

\* is_private taking 172.16/16 for the whole of 172.16/12
is_private_narrow(ip) ==
    IF ip.v = 4
    THEN LET o == ip.parts
         IN \/ o[1] = 10
            \/ (o[1] = 172 /\ o[2] = 16)
            \/ (o[1] = 192 /\ o[2] = 168)
    ELSE BitAnd(ip.parts[1], 65024) = 64512

\* is_private; 0xfe00 = 65024, 0xfc00 = 64512
is_private(ip) ==
    IF ip.v = 4
    THEN LET o == ip.parts
         IN \/ o[1] = 10
            \/ (o[1] = 172 /\ o[2] \in 16..31)
            \/ (o[1] = 192 /\ o[2] = 168)
    ELSE BitAnd(ip.parts[1], 65024) = 64512

\* is_link_local; 0xffc0 = 65472, 0xfe80 = 65152
is_link_local(ip) ==
    IF ip.v = 4
    THEN LET o == ip.parts
         IN o[1] = 169 /\ o[2] = 254
    ELSE BitAnd(ip.parts[1], 65472) = 65152

\* LanOfflineGuard::new
LanOfflineGuardNew(policy) == [policy |-> policy, mode_enabled |-> TRUE]

\* LanOfflineGuard::enable_offline_mode, disable_offline_mode, is_offline_mode_enabled
enable_offline_mode(g)     == [g EXCEPT !.mode_enabled = TRUE]
disable_offline_mode(g)    == [g EXCEPT !.mode_enabled = FALSE]
is_offline_mode_enabled(g) == g.mode_enabled

\* LanOfflineGuard::evaluate_peer
evaluate_peer(g, addr) ==
    LET ip == addr.ip
    IN IF ~g.mode_enabled THEN Allow
       ELSE IF is_loopback(ip)
       THEN (IF g.policy.allow_loopback THEN Allow ELSE Deny("loopback denied"))
       ELSE IF is_link_local(ip)
       THEN (IF g.policy.allow_link_local THEN Allow ELSE Deny("link-local denied"))
       ELSE IF is_private(ip)
       THEN (IF g.policy.allow_private THEN Allow ELSE Deny("private-range denied"))
       ELSE IF g.policy.deny_public
       THEN Deny("public internet address denied in offline mode")
       ELSE Allow

\* Ok(()) and Err(LanOfflineError::PeerDenied { peer, reason })
PeersOk == [ok |-> TRUE, err |-> "None", peer |-> SocketAddr(V4(0, 0, 0, 0), 0), reason |-> ""]
PeerDenied(peer, reason) == [ok |-> FALSE, err |-> "PeerDenied", peer |-> peer, reason |-> reason]

\* the denial of the last peer of the set that is denied
RECURSIVE validate_peer_set_last_denied(_, _)
validate_peer_set_last_denied(g, peers) ==
    IF peers = <<>> THEN PeersOk
    ELSE LET decision == evaluate_peer(g, peers[Len(peers)])
         IN IF decision.allow
            THEN validate_peer_set_last_denied(g, SubSeq(peers, 1, Len(peers) - 1))
            ELSE PeerDenied(peers[Len(peers)], decision.reason)

\* LanOfflineGuard::validate_peer_set: the peers in iteration order
RECURSIVE validate_peer_set(_, _)
validate_peer_set(g, peers) ==
    IF peers = <<>> THEN PeersOk
    ELSE LET decision == evaluate_peer(g, Head(peers))
         IN IF decision.allow
            THEN validate_peer_set(g, Tail(peers))
            ELSE PeerDenied(Head(peers), decision.reason)

---------------------------------------------------------------------------
(* SpecSession: a constructed TransferSession under apply_ack *)

NoAck == [transfer_id |-> 0, receiver_id |-> "", next_expected_chunk |-> 0]

NoSessionCall == [op |-> "none", ack |-> NoAck, result |-> Ok, before |-> NoSession]

NoNewArgs   == [transfer_id |-> 0, data |-> <<>>, chunk_size |-> 0, receiver_ids |-> <<>>]
Pending     == [result |-> Err("Pending"), session |-> NoSession]
NoChunkCall == [op |-> "none", chunk_index |-> 0, result |-> Ok, chunk |-> NoChunk]

NoManagerCall == [op |-> "none", arg |-> 0, result |-> Ok, before |-> NoManager,
                  loaded |-> NoCheckpoint]

NoLanGuard == [policy |-> DefaultPolicy, mode_enabled |-> FALSE]
NoLanAddr  == SocketAddr(V4(0, 0, 0, 0), 0)
NoLanCall  == [op |-> "none", addr |-> NoLanAddr, decision |-> Allow, before |-> NoLanGuard]
NoLanSetCall == [op |-> "none", peers |-> <<>>, result |-> PeersOk, before |-> NoLanGuard]

NoAssembleArgs == [total_chunks |-> 0, chunks |-> <<>>]
NoAssembleCall == [done |-> FALSE, result |-> AssembleOk, out |-> <<>>]

NoIndexArgs    == [transfer_id |-> 0, data |-> <<>>, chunk_size |-> 0]
PendingManager == [result |-> Err("Pending"), mgr |-> NoManager]
NoIndexCall    == [done |-> FALSE, file_size |-> 0, index |-> <<>>]

NoCandidates == gather_candidates("", None, None)
NotDecided ==
    [done |-> FALSE, local_nat |-> "Unknown", remote_nat |-> "Unknown",
     local |-> NoCandidates, remote |-> NoCandidates,
     plan |-> [route |-> "Direct", reason |-> <<>>]]

NoKey32 == [i \in 1..32 |-> 0]

NotSealed ==
    [done |-> FALSE, key |-> NoKey32, nonce |-> NoNonce12, plaintext |-> <<>>, aad |-> <<>>,
     ciphertext |-> <<>>]
NotOpened ==
    [done |-> FALSE, key |-> NoKey32, nonce |-> NoNonce12, ciphertext |-> <<>>, aad |-> <<>>,
     result |-> NoPlaintext]
NoTriple    == [transfer_id |-> 0, chunk_index |-> 0, direction |-> "SenderToReceiver"]
NoNonceCall ==
    [done |-> FALSE, first |-> NoTriple, second |-> NoTriple,
     first_nonce |-> NoNonce12, second_nonce |-> NoNonce12]

NoAdapterSent ==
    [done |-> FALSE, chunk |-> NoChunk, key |-> NoKey32, frame |-> NoChunkV2, bytes |-> <<>>]
NoAdapterWire == [via |-> "none", result |-> FrameOk, frame |-> NoChunkV2]
NoAdapterCall == [done |-> FALSE, key |-> NoKey32, result |-> FrameOk, chunk |-> NoChunk]

NoFrameIn   == [version |-> "none", v1 |-> NoChunk, v2 |-> NoChunkV2, bytes |-> <<>>]
NoFrameCall ==
    [done |-> FALSE, versioned |-> NoVersioned,
     v1 |-> [result |-> FrameOk, chunk |-> NoChunk],
     v2 |-> [result |-> FrameOk, chunk |-> NoChunkV2]]

NoLongArgs    == [transfer_id |-> 0, data_len |-> 0, chunk_size |-> 0]
PendingFilled == [result |-> Err("Pending"), session |-> NoFilledSession]
NoLongCall    ==
    [done |-> FALSE, key |-> NoKey32, first |-> NoChunk, second |-> NoChunk,
     first_frame |-> NoChunkV2, second_frame |-> NoChunkV2]

\* the variables of a specification that is not running keep these values
SessionIdle == session = NoSession /\ sessionCall = NoSessionCall /\ accepted = {}
NewIdle     == newArgs = NoNewArgs /\ newResult = Pending /\ chunkCall = NoChunkCall
ManagerIdle == mgr = NoManager /\ file = NoFile /\ lfmCall = NoManagerCall
GuardIdle   == guard = GuardNew(0) /\ clock = 0 /\ pending = <<>> /\ guardLog = <<>>

HelloIdle   ==
    /\ stage = "start" /\ chSent = NoClientHello /\ chWire = NoClientHello
    /\ shSent = NoServerHello /\ shWire = NoServerHello /\ helloCall = NoHelloCall

NegotiateIdle == negArgs = NoNegotiateArgs /\ negResult = NotNegotiated /\ negSwapped = NotNegotiated
KeysIdle    == keysFirst = NotDerived /\ keysSecond = NotDerived

HandshakeIdle == GuardIdle /\ HelloIdle /\ NegotiateIdle /\ KeysIdle

CoreIdle    == SessionIdle /\ NewIdle /\ ManagerIdle /\ HandshakeIdle

FrameIdle   == frameIn = NoFrameIn /\ frameBytes = <<>> /\ frameCall = NoFrameCall

EnvelopeIdle == envSealed = NotSealed /\ envOpened = NotOpened /\ nonceCall = NoNonceCall

AdapterIdle == adapterSent = NoAdapterSent /\ adapterWire = NoAdapterWire /\ adapterCall = NoAdapterCall

RouteIdle   == routeFirst = NotDecided /\ routeSecond = NotDecided

LanIdle     == lanGuard = NoLanGuard /\ lanCall = NoLanCall /\ lanSetCall = NoLanSetCall

AssembleIdle == asmArgs = NoAssembleArgs /\ asmCall = NoAssembleCall
IndexIdle   == idxArgs = NoIndexArgs /\ idxMgr = PendingManager /\ idxCall = NoIndexCall
LongIdle    == longArgs = NoLongArgs /\ longNew = PendingFilled /\ longCall = NoLongCall
AuditIdle   == telemetry = TelemetryNew(RetentionPolicy(0)) /\ recorded = <<>>
SideIdle    == AssembleIdle /\ IndexIdle /\ LongIdle /\ AuditIdle
EdgeIdle    == FrameIdle /\ EnvelopeIdle /\ AdapterIdle /\ RouteIdle /\ LanIdle /\ SideIdle

NotFrameIdle    == CoreIdle /\ EnvelopeIdle /\ AdapterIdle /\ RouteIdle /\ LanIdle /\ SideIdle
NotEnvelopeIdle == CoreIdle /\ FrameIdle /\ AdapterIdle /\ RouteIdle /\ LanIdle /\ SideIdle
NotAdapterIdle  == CoreIdle /\ FrameIdle /\ EnvelopeIdle /\ RouteIdle /\ LanIdle /\ SideIdle
NotRouteIdle    == CoreIdle /\ FrameIdle /\ EnvelopeIdle /\ AdapterIdle /\ LanIdle /\ SideIdle
NotLanIdle      == CoreIdle /\ FrameIdle /\ EnvelopeIdle /\ AdapterIdle /\ RouteIdle /\ SideIdle
NotSideIdle     == CoreIdle /\ FrameIdle /\ EnvelopeIdle /\ AdapterIdle /\ RouteIdle /\ LanIdle
NotAssembleIdle == NotSideIdle /\ IndexIdle /\ LongIdle /\ AuditIdle
NotIndexIdle    == NotSideIdle /\ AssembleIdle /\ LongIdle /\ AuditIdle
NotLongIdle     == NotSideIdle /\ AssembleIdle /\ IndexIdle /\ AuditIdle
NotAuditIdle    == NotSideIdle /\ AssembleIdle /\ IndexIdle /\ LongIdle

\* the data of the sessions under acks: vec![1u8; n], as the tests build it
FilledData(n) == [i \in 1..n |-> 1]

SessionIds == {7}

InitSession ==
    /\ EdgeIdle
    /\ \E transfer_id \in SessionIds, n \in 0..MaxDataLen, chunk_size \in 1..MaxChunkSize,
          receiver_ids \in SeqsUpTo(ReceiverNames, MaxReceivers) :
            session = SessionNew(transfer_id, FilledData(n), chunk_size, receiver_ids).session
    /\ sessionCall = NoSessionCall
    /\ accepted = {}
    /\ NewIdle
    /\ ManagerIdle
    /\ HandshakeIdle

\* the acks a peer may send: any transfer id, any receiver name, any checkpoint up
\* to one past the largest total_chunks
Acks == [transfer_id : TransferIds, receiver_id : AckReceivers,
         next_expected_chunk : 0..(MaxDataLen + 1)]

ApplyAck ==
    \E ack \in Acks :
        LET r == apply_ack(session, ack)
        IN /\ session' = r.session
           /\ sessionCall' = [op |-> "apply_ack", ack |-> ack, result |-> r.result,
                              before |-> session]
           /\ accepted' = IF r.result.ok THEN accepted \cup {ack} ELSE accepted
           /\ UNCHANGED <<newVars, managerVars, handshakeVars, edgeVars>>

NextSession == ApplyAck

---------------------------------------------------------------------------
(* SpecNew: TransferSession::new on drawn arguments, then chunk_for *)

NewArgs == [transfer_id : TransferIds, data : SeqsUpTo(Bytes, MaxDataLen),
            chunk_size : 0..MaxChunkSize, receiver_ids : SeqsUpTo(ReceiverNames, MaxReceivers)]

InitNew ==
    /\ EdgeIdle
    /\ newArgs \in NewArgs
    /\ newResult = Pending
    /\ chunkCall = NoChunkCall
    /\ SessionIdle
    /\ ManagerIdle
    /\ HandshakeIdle

CallNew ==
    /\ newResult = Pending
    /\ newResult' = SessionNew(newArgs.transfer_id, newArgs.data, newArgs.chunk_size,
                               newArgs.receiver_ids)
    /\ UNCHANGED <<newArgs, chunkCall, sessionVars, managerVars, handshakeVars, edgeVars>>

\* chunk_for takes &self: the session is not written
CallChunkFor ==
    /\ newResult.result.ok
    /\ \E chunk_index \in 0..(MaxDataLen + 1) :
          LET r == chunk_for(newResult.session, chunk_index)
          IN chunkCall' = [op |-> "chunk_for", chunk_index |-> chunk_index,
                           result |-> r.result, chunk |-> r.chunk]
    /\ UNCHANGED <<newArgs, newResult, sessionVars, managerVars, handshakeVars, edgeVars>>

NextNew == CallNew \/ CallChunkFor

---------------------------------------------------------------------------
(* SpecManager: a constructed LargeFileManager and its checkpoint file *)

ManagerIds == {0, 7, 105}

Text(content) == [exists |-> TRUE, content |-> content]

\* what may lie at the checkpoint path before the first save: nothing, or a file
\* somebody else wrote
InitialFiles ==
    { NoFile,
      Text(<<"7", NL>>),
      Text(<<"7", NL, "+", "2", NL, "p", "a", "u", "s", "e", "d">>),
      Text(<<"0", "7", NL, "1", CR, NL, "c", "a", "n", "c", "e", "l", "l", "e", "d", NL>>),
      Text(<<"7", NL, "4", "2", "9", "4", "9", "6", "7", "2", "9", "6", NL,
             "r", "u", "n", "n", "i", "n", "g", NL>>),
      Text(<<"7", NL, "1", NL, "s", "t", "o", "p", "p", "e", "d", NL>>) }

InitManager ==
    /\ EdgeIdle
    /\ \E transfer_id \in ManagerIds, file_size \in 0..MaxDataLen,
          chunk_size \in 1..MaxChunkSize :
            mgr = ManagerNew(transfer_id, file_size, chunk_size).mgr
    /\ file \in InitialFiles
    /\ lfmCall = NoManagerCall
    /\ SessionIdle
    /\ NewIdle
    /\ HandshakeIdle

ManagerCall(op, arg, r) ==
    [op |-> op, arg |-> arg, result |-> r.result, before |-> mgr, loaded |-> NoCheckpoint]

UpdateNextChunk ==
    \E next_chunk \in 0..(MaxDataLen + 1) :
        LET r == update_next_chunk(mgr, next_chunk)
        IN /\ mgr' = r.mgr
           /\ lfmCall' = ManagerCall("update_next_chunk", next_chunk, r)
           /\ UNCHANGED <<file, sessionVars, newVars, handshakeVars, edgeVars>>

Pause ==
    LET r == pause(mgr)
    IN /\ mgr' = r.mgr
       /\ lfmCall' = ManagerCall("pause", 0, r)
       /\ UNCHANGED <<file, sessionVars, newVars, handshakeVars, edgeVars>>

Resume ==
    LET r == resume(mgr)
    IN /\ mgr' = r.mgr
       /\ lfmCall' = ManagerCall("resume", 0, r)
       /\ UNCHANGED <<file, sessionVars, newVars, handshakeVars, edgeVars>>

Cancel ==
    LET r == cancel(mgr)
    IN /\ mgr' = r.mgr
       /\ lfmCall' = ManagerCall("cancel", 0, r)
       /\ UNCHANGED <<file, sessionVars, newVars, handshakeVars, edgeVars>>

\* save_checkpoint takes &self
SaveCheckpoint ==
    \E io_ok \in BOOLEAN :
        LET r == save_checkpoint(mgr, file, io_ok)
        IN /\ file' = r.file
           /\ lfmCall' = ManagerCall("save_checkpoint", 0, r)
           /\ UNCHANGED <<mgr, sessionVars, newVars, handshakeVars, edgeVars>>

\* load_checkpoint is an associated function: it reads the file alone
LoadCheckpoint ==
    LET r == load_checkpoint(file)
    IN /\ lfmCall' = [ManagerCall("load_checkpoint", 0, r) EXCEPT !.loaded = r.checkpoint]
       /\ UNCHANGED <<mgr, file, sessionVars, newVars, handshakeVars, edgeVars>>

NextManager ==
    \/ UpdateNextChunk
    \/ Pause
    \/ Resume
    \/ Cancel
    \/ SaveCheckpoint
    \/ LoadCheckpoint

---------------------------------------------------------------------------
(* SpecGuard: one ReplayGuard shared by concurrent handshake verifications.  *)
(* A verification reads the clock, and presents its nonce with that reading *)
(* when it gets hold of the guard: check_and_remember takes &mut self, so   *)
(* the calls are served one at a time, in an order that need not be the     *)
(* order of the readings.                                                   *)

Verifiers == {"v1", "v2"}

NoNonce == [i \in 1..NonceLen |-> 0]

NoPresentation == [waiting |-> FALSE, nonce |-> NoNonce, now |-> 0]

InitGuard ==
    /\ EdgeIdle
    /\ \E ttl \in 0..MaxTtl : guard = GuardNew(ttl)
    /\ clock = 0
    /\ pending = [v \in Verifiers |-> NoPresentation]
    /\ guardLog = <<>>
    /\ SessionIdle
    /\ NewIdle
    /\ ManagerIdle
    /\ HelloIdle
    /\ NegotiateIdle
    /\ KeysIdle

\* the clock advances
Tick ==
    /\ clock < MaxTime
    /\ clock' = clock + 1
    /\ UNCHANGED <<guard, pending, guardLog, sessionVars, newVars, managerVars, helloVars,
                 negotiateVars, keysVars, edgeVars>>

\* a verification takes the nonce of the hello it received and reads the clock
Present(v) ==
    /\ ~pending[v].waiting
    /\ \E nonce \in Nonces :
           pending' = [pending EXCEPT ![v] = [waiting |-> TRUE, nonce |-> nonce, now |-> clock]]
    /\ UNCHANGED <<guard, clock, guardLog, sessionVars, newVars, managerVars, helloVars,
                 negotiateVars, keysVars, edgeVars>>

\* the verification is served: one whole check_and_remember call
Check(v) ==
    /\ pending[v].waiting
    /\ Len(guardLog) < MaxCalls
    /\ LET p == pending[v]
           r == check_and_remember(guard, p.nonce, p.now)
       IN /\ guard' = r.guard
          /\ guardLog' = Append(guardLog, [op |-> "check_and_remember",
                                           nonce |-> p.nonce, now |-> p.now,
                                           result |-> r.result,
                                           remembered |-> r.guard.seen[p.nonce]])
    /\ pending' = [pending EXCEPT ![v] = NoPresentation]
    /\ UNCHANGED <<clock, sessionVars, newVars, managerVars, helloVars,
                 negotiateVars, keysVars, edgeVars>>

\* the owner of the guard purges it: one whole expire call
Expire ==
    /\ Len(guardLog) < MaxCalls
    /\ guard' = expire(guard, clock)
    /\ guardLog' = Append(guardLog, [op |-> "expire", nonce |-> NoNonce,
                                     now |-> clock, result |-> FALSE, remembered |-> 0])
    /\ UNCHANGED <<clock, pending, sessionVars, newVars, managerVars, helloVars,
                 negotiateVars, keysVars, edgeVars>>

NextGuard ==
    \/ Tick
    \/ \E v \in Verifiers : Present(v)
    \/ \E v \in Verifiers : Check(v)
    \/ Expire

---------------------------------------------------------------------------
(* SpecHello: one hello of the exchange, from its creation over the wire to *)
(* its verification. On the wire one field of the hello may be changed.     *)

\* "client-1"
ClientId == <<99, 108, 105, 101, 110, 116, 45, 49>>

\* "server-1"
ServerId == <<115, 101, 114, 118, 101, 114, 45, 49>>

DeviceIds == {ClientId, ServerId, <<>>}

\* the public keys a hello may be given on the wire: another device's key, the
\* key with a byte that is no base64 symbol, the key cut short
ForgedPublicKeys(public_key) ==
    {public_key_b64(identity) : identity \in Identities}
        \cup {[public_key EXCEPT ![1] = 42], SubSeq(public_key, 1, Len(public_key) - 3)}

\* the signatures a hello may be given on the wire: another device's signature
\* of the same bytes, the signer's signature of other bytes
ForgedSignatures(signature) ==
    {Signature(verifying_key(identity), signature.message) : identity \in Identities}
        \cup {Signature(signature.signer, <<>>)}

\* the hellos that differ from h in exactly one field
ClientTampers(h) ==
    ({[h EXCEPT !.device_id = d] : d \in DeviceIds}
        \cup {[h EXCEPT !.public_key_b64 = k] : k \in ForgedPublicKeys(h.public_key_b64)}
        \cup {[h EXCEPT !.nonce = n] : n \in Nonces}
        \cup {[h EXCEPT !.timestamp_secs = t] : t \in 0..MaxTime}
        \cup {[h EXCEPT !.capabilities.supports_encryption = b] : b \in BOOLEAN}
        \cup {[h EXCEPT !.capabilities.preferred_encryption_mode = m] : m \in EncryptionModes}
        \cup {[h EXCEPT !.signature = g] : g \in ForgedSignatures(h.signature)})
    \ {h}

ServerTampers(h) ==
    ({[h EXCEPT !.device_id = d] : d \in DeviceIds}
        \cup {[h EXCEPT !.public_key_b64 = k] : k \in ForgedPublicKeys(h.public_key_b64)}
        \cup {[h EXCEPT !.client_nonce = n] : n \in Nonces}
        \cup {[h EXCEPT !.server_nonce = n] : n \in Nonces}
        \cup {[h EXCEPT !.timestamp_secs = t] : t \in 0..MaxTime}
        \cup {[h EXCEPT !.capabilities.supports_encryption = b] : b \in BOOLEAN}
        \cup {[h EXCEPT !.capabilities.preferred_encryption_mode = m] : m \in EncryptionModes}
        \cup {[h EXCEPT !.signature = g] : g \in ForgedSignatures(h.signature)})
    \ {h}

\* the capabilities the hellos are created with: the default, and the pair the
\* tests offer
OfferedCapabilities ==
    {DefaultCapabilities, [supports_encryption |-> TRUE, preferred_encryption_mode |-> "Optional"]}

\* the client hellos a server answers in this specification
ReceivedClientHellos ==
    {create_client_hello(ClientId, [signing_key |-> 1], nonce, 0) : nonce \in Nonces}

InitHello ==
    /\ EdgeIdle
    /\ stage = "start"
    /\ chSent = NoClientHello /\ chWire = NoClientHello
    /\ shSent = NoServerHello /\ shWire = NoServerHello
    /\ helloCall = NoHelloCall
    /\ SessionIdle
    /\ NewIdle
    /\ ManagerIdle
    /\ GuardIdle
    /\ NegotiateIdle
    /\ KeysIdle

\* the client creates its hello and sends it
CreateClientHello ==
    /\ stage = "start"
    /\ \E identity \in Identities, capabilities \in OfferedCapabilities, nonce \in Nonces,
          timestamp_secs \in 0..MaxTime :
           LET hello == create_client_hello_with_capabilities(ClientId, identity, capabilities,
                                                              nonce, timestamp_secs)
           IN chSent' = hello /\ chWire' = hello
    /\ stage' = "client"
    /\ UNCHANGED <<shSent, shWire, helloCall, sessionVars, newVars, managerVars, guardVars,
                   negotiateVars, keysVars, edgeVars>>

\* one field of the hello is changed before it is delivered
TamperClientHello ==
    /\ stage = "client" /\ chWire = chSent /\ helloCall = NoHelloCall
    /\ chWire' \in ClientTampers(chSent)
    /\ UNCHANGED <<stage, chSent, shSent, shWire, helloCall,
                   sessionVars, newVars, managerVars, guardVars,
                   negotiateVars, keysVars, edgeVars>>

\* the server verifies the hello that reached it: one verify_client_hello call
VerifyClientHello ==
    /\ stage = "client"
    /\ \E max_skew_secs \in 0..MaxSkew, now_secs \in 0..MaxTime :
           helloCall' = [op |-> "verify_client_hello", expected_client_nonce |-> <<>>,
                         max_skew_secs |-> max_skew_secs, now_secs |-> now_secs,
                         result |-> verify_client_hello(chWire, max_skew_secs, now_secs)]
    /\ UNCHANGED <<stage, chSent, chWire, shSent, shWire,
                   sessionVars, newVars, managerVars, guardVars,
                   negotiateVars, keysVars, edgeVars>>

\* the server answers a client hello it received
CreateServerHello ==
    /\ stage = "start"
    /\ \E client_hello \in ReceivedClientHellos, server_identity \in Identities,
          capabilities \in OfferedCapabilities, server_nonce \in Nonces, timestamp_secs \in 0..MaxTime :
           LET hello == create_server_hello_with_capabilities(ServerId, server_identity,
                            client_hello, capabilities, server_nonce, timestamp_secs)
           IN /\ chSent' = client_hello /\ chWire' = client_hello
              /\ shSent' = hello /\ shWire' = hello
    /\ stage' = "server"
    /\ UNCHANGED <<helloCall, sessionVars, newVars, managerVars, guardVars,
                   negotiateVars, keysVars, edgeVars>>

TamperServerHello ==
    /\ stage = "server" /\ shWire = shSent /\ helloCall = NoHelloCall
    /\ shWire' \in ServerTampers(shSent)
    /\ UNCHANGED <<stage, chSent, chWire, shSent, helloCall,
                   sessionVars, newVars, managerVars, guardVars,
                   negotiateVars, keysVars, edgeVars>>

\* the client verifies the answer against the nonce it sent: one
\* verify_server_hello call
VerifyServerHello ==
    /\ stage = "server"
    /\ \E max_skew_secs \in 0..MaxSkew, now_secs \in 0..MaxTime :
           helloCall' = [op |-> "verify_server_hello", expected_client_nonce |-> chSent.nonce,
                         max_skew_secs |-> max_skew_secs, now_secs |-> now_secs,
                         result |-> verify_server_hello(chSent.nonce, shWire, max_skew_secs,
                                                        now_secs)]
    /\ UNCHANGED <<stage, chSent, chWire, shSent, shWire,
                   sessionVars, newVars, managerVars, guardVars,
                   negotiateVars, keysVars, edgeVars>>

NextHello ==
    \/ CreateClientHello
    \/ TamperClientHello
    \/ VerifyClientHello
    \/ CreateServerHello
    \/ TamperServerHello
    \/ VerifyServerHello

---------------------------------------------------------------------------
(* SpecNegotiate: negotiate_encryption on every pair of capabilities, called *)
(* with the client's first and with the server's first                      *)

InitNegotiate ==
    /\ EdgeIdle
    /\ negArgs \in [client : Capabilities, server : Capabilities]
    /\ negResult = NotNegotiated
    /\ negSwapped = NotNegotiated
    /\ SessionIdle
    /\ NewIdle
    /\ ManagerIdle
    /\ GuardIdle
    /\ HelloIdle
    /\ KeysIdle

Negotiate ==
    /\ negResult' = negotiate_encryption(negArgs.client, negArgs.server)
    /\ UNCHANGED <<negArgs, negSwapped, sessionVars, newVars, managerVars, guardVars, helloVars,
                   keysVars, edgeVars>>

NegotiateSwapped ==
    /\ negSwapped' = negotiate_encryption(negArgs.server, negArgs.client)
    /\ UNCHANGED <<negArgs, negResult, sessionVars, newVars, managerVars, guardVars, helloVars,
                   keysVars, edgeVars>>

NextNegotiate == Negotiate \/ NegotiateSwapped

---------------------------------------------------------------------------
(* SpecKeys: two calls of derive_session_keys *)

\* the public key strings passed: the keys of two devices, and two short strings
\* (the parameters are &str, of any length)
KeyStrings == {public_key_b64(identity) : identity \in Identities} \cup {<<65>>, <<65, 65>>}

Derivation(client_public_key_b64, server_public_key_b64, client_nonce, server_nonce, is_client) ==
    [done |-> TRUE,
     client_public_key_b64 |-> client_public_key_b64,
     server_public_key_b64 |-> server_public_key_b64,
     client_nonce |-> client_nonce, server_nonce |-> server_nonce, is_client |-> is_client,
     keys |-> derive_session_keys(client_public_key_b64, server_public_key_b64, client_nonce,
                                  server_nonce, is_client)]

Derivations ==
    {Derivation(cpk, spk, cn, sn, is_client) :
        cpk \in KeyStrings, spk \in KeyStrings, cn \in Nonces, sn \in Nonces, is_client \in BOOLEAN}

InitKeys ==
    /\ EdgeIdle
    /\ keysFirst = NotDerived
    /\ keysSecond = NotDerived
    /\ SessionIdle
    /\ NewIdle
    /\ ManagerIdle
    /\ GuardIdle
    /\ HelloIdle
    /\ NegotiateIdle

DeriveFirst ==
    /\ ~keysFirst.done
    /\ keysFirst' \in Derivations
    /\ UNCHANGED <<keysSecond, sessionVars, newVars, managerVars, guardVars, helloVars,
                   negotiateVars, edgeVars>>

DeriveSecond ==
    /\ keysFirst.done /\ ~keysSecond.done
    /\ keysSecond' \in Derivations
    /\ UNCHANGED <<keysFirst, sessionVars, newVars, managerVars, guardVars, helloVars,
                   negotiateVars, edgeVars>>

NextKeys == DeriveFirst \/ DeriveSecond

---------------------------------------------------------------------------
(* SpecFrame: a chunk is encoded in one of the two wire versions, the bytes *)
(* cross the wire, and the three decoders are applied to what arrives       *)

\* chunk_index and total_chunks as a caller may set them, within the bounds or not
ChunkBounds == { <<0, 1>>, <<1, 2>>, <<2, 2>>, <<0, 0>> }

FramePayloads == SeqsUpTo(Bytes, MaxChunkSize)

ChunksV1 ==
    { [transfer_id |-> t, chunk_index |-> b[1], total_chunks |-> b[2], payload |-> p] :
        t \in TransferIds, b \in ChunkBounds, p \in FramePayloads }

Nonces12 == { NoNonce12, [i \in 1..12 |-> i] }

\* an aad one byte longer than aad_len can announce
LongAad == [i \in 1..(U16Max + 1) |-> 0]

ChunksV2 ==
    { [protocol_version |-> v, encryption_flag |-> f, transfer_id |-> t,
       chunk_index |-> b[1], total_chunks |-> b[2], nonce |-> n, aad |-> a, payload |-> p] :
        v \in {2, 1}, f \in {"Plaintext", "Encrypted"}, t \in {7}, b \in ChunkBounds,
        n \in Nonces12, a \in {<<>>, <<9>>}, p \in FramePayloads }
    \cup
    { [protocol_version |-> 2, encryption_flag |-> f, transfer_id |-> 7,
       chunk_index |-> 0, total_chunks |-> 1, nonce |-> NoNonce12, aad |-> LongAad,
       payload |-> <<1>>] : f \in {"Plaintext", "Encrypted"} }

\* what the wire may do to the bytes of a frame
Truncated(bytes) ==
    { SubSeq(bytes, 1, n) : n \in {0, 3, 4, 23, 39, Len(bytes) - 1} \cap 0..Len(bytes) }
Extended(bytes)  == { Append(bytes, 0) }
OtherMagic(bytes) ==
    { [bytes EXCEPT ![4] = m] : m \in {69, 70, 68} }
OtherHeader(bytes) ==
    IF SubSeq(bytes, 1, 4) = MAGIC_V2
    THEN { [bytes EXCEPT ![5] = 3], [bytes EXCEPT ![6] = 2],
           [bytes EXCEPT ![6] = 1 - bytes[6]] }
    ELSE {}
Arrivals(bytes) ==
    (Truncated(bytes) \cup Extended(bytes) \cup OtherMagic(bytes) \cup OtherHeader(bytes))
        \ {bytes}

InitFrame ==
    /\ NotFrameIdle
    /\ FrameIdle

EncodeV1 ==
    /\ frameIn.version = "none"
    /\ \E c \in ChunksV1 :
        /\ frameIn' = [version |-> "V1", v1 |-> c, v2 |-> NoChunkV2,
                       bytes |-> TransferChunk_encode(c)]
        /\ frameBytes' = TransferChunk_encode(c)
    /\ UNCHANGED <<frameCall, notFrameVars>>

EncodeV2 ==
    /\ frameIn.version = "none"
    /\ \E c \in ChunksV2 :
        /\ frameIn' = [version |-> "V2", v1 |-> NoChunk, v2 |-> c,
                       bytes |-> TransferChunkV2_encode(c)]
        /\ frameBytes' = TransferChunkV2_encode(c)
    /\ UNCHANGED <<frameCall, notFrameVars>>

Garble ==
    /\ frameIn.version # "none"
    /\ frameBytes = frameIn.bytes
    /\ ~frameCall.done
    /\ frameBytes' \in Arrivals(frameBytes)
    /\ UNCHANGED <<frameIn, frameCall, notFrameVars>>

Decode ==
    /\ frameIn.version # "none"
    /\ ~frameCall.done
    /\ frameCall' = [done      |-> TRUE,
                     versioned |-> VersionedTransferChunk_decode(frameBytes),
                     v1        |-> TransferChunk_decode(frameBytes),
                     v2        |-> TransferChunkV2_decode(frameBytes)]
    /\ UNCHANGED <<frameIn, frameBytes, notFrameVars>>

NextFrame == EncodeV1 \/ EncodeV2 \/ Garble \/ Decode

---------------------------------------------------------------------------
(* SpecEnvelope: one encrypt_chunk_with_aad call and one decrypt call on its *)
(* ciphertext, or two derive_nonce calls                                     *)

Key32(b) == [i \in 1..32 |-> b]

\* session keys: constant ones, and one that differs from Key32(1) in its last two bytes
EnvelopeKeys ==
    { Key32(1), Key32(2), Key32(9), [Key32(1) EXCEPT ![31] = 2, ![32] = 252] }

\* the chunk indices nonces are derived for: small ones, and 2^24 and above
NonceIndices == { 0, 1, 512, 65536, 16777216, 16777217 }

NonceTriples ==
    [transfer_id : TransferIds, chunk_index : NonceIndices, direction : Directions]

EnvelopeNonces ==
    { derive_nonce(7, i, d) : i \in {0, 1, 512}, d \in {"SenderToReceiver"} }
      \cup { derive_nonce(7, 0, "ReceiverToSender") }

Aads == { <<>>, <<0>>, <<1>>, <<1, 1>> }

Plaintexts == SeqsUpTo(Bytes, MaxChunkSize)

\* every way of changing one byte of ciphertext in its low or in its high bit
OneByteChanged(ciphertext) ==
    { [ciphertext EXCEPT ![i] = Xor(ciphertext[i], d)] :
        i \in 1..Len(ciphertext), d \in {1, 128} }

InitEnvelope ==
    /\ NotEnvelopeIdle
    /\ EnvelopeIdle

Encrypt ==
    /\ ~envSealed.done
    /\ ~nonceCall.done
    /\ \E key \in EnvelopeKeys, nonce \in EnvelopeNonces, plaintext \in Plaintexts,
          aad \in Aads :
            envSealed' = [done |-> TRUE, key |-> key, nonce |-> nonce,
                          plaintext |-> plaintext, aad |-> aad,
                          ciphertext |-> encrypt_chunk_with_aad(key, nonce, plaintext, aad)]
    /\ UNCHANGED <<envOpened, nonceCall, notEnvelopeVars>>

\* the receiver's call: the sender's arguments, or one of them replaced
OpenWith(key, nonce, ciphertext, aad) ==
    /\ envSealed.done
    /\ ~envOpened.done
    /\ envOpened' = [done |-> TRUE, key |-> key, nonce |-> nonce, ciphertext |-> ciphertext,
                     aad |-> aad,
                     result |-> decrypt_chunk_with_aad(key, nonce, ciphertext, aad)]
    /\ UNCHANGED <<envSealed, nonceCall, notEnvelopeVars>>

Decrypt ==
    OpenWith(envSealed.key, envSealed.nonce, envSealed.ciphertext, envSealed.aad)

DecryptOtherKey ==
    \E key \in EnvelopeKeys \ {envSealed.key} :
        OpenWith(key, envSealed.nonce, envSealed.ciphertext, envSealed.aad)

DecryptOtherNonce ==
    \E nonce \in EnvelopeNonces \ {envSealed.nonce} :
        OpenWith(envSealed.key, nonce, envSealed.ciphertext, envSealed.aad)

DecryptOtherAad ==
    \E aad \in Aads \ {envSealed.aad} :
        OpenWith(envSealed.key, envSealed.nonce, envSealed.ciphertext, aad)

DecryptChanged ==
    \E ciphertext \in OneByteChanged(envSealed.ciphertext) :
        OpenWith(envSealed.key, envSealed.nonce, ciphertext, envSealed.aad)

DeriveNonces ==
    /\ ~envSealed.done
    /\ ~nonceCall.done
    /\ \E first \in NonceTriples, second \in NonceTriples :
        nonceCall' =
            [done |-> TRUE, first |-> first, second |-> second,
             first_nonce  |-> derive_nonce(first.transfer_id, first.chunk_index,
                                           first.direction),
             second_nonce |-> derive_nonce(second.transfer_id, second.chunk_index,
                                           second.direction)]
    /\ UNCHANGED <<envSealed, envOpened, notEnvelopeVars>>

NextEnvelope ==
    \/ Encrypt
    \/ Decrypt
    \/ DecryptOtherKey
    \/ DecryptOtherNonce
    \/ DecryptOtherAad
    \/ DecryptChanged
    \/ DeriveNonces

---------------------------------------------------------------------------
(* SpecAdapter: the sender wraps a chunk with encrypt_chunk_frame, a v2 frame *)
(* reaches the receiver, and the receiver calls decrypt_chunk_frame on it     *)

AdapterKeys == { Key32(1), Key32(2), Key32(9) }

\* the chunks a session hands out, and one outside the chunk bounds
AdapterChunks ==
    { [transfer_id |-> t, chunk_index |-> b[1], total_chunks |-> b[2], payload |-> p] :
        t \in TransferIds, b \in { <<0, 1>>, <<1, 2>>, <<2, 2>> }, p \in FramePayloads }

\* a frame with one field set by somebody other than the sender
OneFieldChanged(frame) ==
    ({ [frame EXCEPT !.transfer_id = t] : t \in TransferIds }
     \cup { [frame EXCEPT !.chunk_index = i] : i \in {0, 1} }
     \cup { [frame EXCEPT !.total_chunks = frame.total_chunks + 1] }
     \cup { [frame EXCEPT !.nonce = derive_nonce(frame.transfer_id, i, "SenderToReceiver")] :
              i \in {0, 1, 512} }
     \cup { [frame EXCEPT !.aad = <<>>] }
     \cup { [frame EXCEPT !.payload = p] : p \in OneByteChanged(frame.payload) }
     \cup { [frame EXCEPT !.encryption_flag = "Plaintext"] })
    \ {frame}

\* frames of a sender that does not encrypt
PlaintextFrames ==
    { [protocol_version |-> 2, encryption_flag |-> "Plaintext", transfer_id |-> 7,
       chunk_index |-> 0, total_chunks |-> 1, nonce |-> NoNonce12, aad |-> <<>>,
       payload |-> p] : p \in { <<>>, <<1, 2>> } }

InitAdapter ==
    /\ NotAdapterIdle
    /\ AdapterIdle

EncryptFrame ==
    /\ ~adapterSent.done
    /\ \E chunk \in AdapterChunks, key \in AdapterKeys :
        LET sealed == encrypt_chunk_frame(chunk, key)
        IN adapterSent' = [done |-> TRUE, chunk |-> chunk, key |-> key,
                           frame |-> sealed.frame,
                           bytes |-> TransferChunkV2_encode(sealed.frame)]
    /\ UNCHANGED <<adapterWire, adapterCall, notAdapterVars>>

\* the frame is handed to the receiver as it is
HandOver ==
    /\ adapterSent.done
    /\ adapterWire.via = "none"
    /\ adapterWire' = [via |-> "memory", result |-> FrameOk, frame |-> adapterSent.frame]
    /\ UNCHANGED <<adapterSent, adapterCall, notAdapterVars>>

\* the receiver parses the serialised frame
ReceiveBytes ==
    /\ adapterSent.done
    /\ adapterWire.via = "none"
    /\ LET parsed == TransferChunkV2_decode(adapterSent.bytes)
       IN adapterWire' = [via |-> "wire", result |-> parsed.result, frame |-> parsed.chunk]
    /\ UNCHANGED <<adapterSent, adapterCall, notAdapterVars>>

\* somebody else's frame reaches the receiver
ReceiveOther ==
    /\ adapterSent.done
    /\ adapterWire.via = "none"
    /\ \E frame \in OneFieldChanged(adapterSent.frame) \cup PlaintextFrames :
        adapterWire' = [via |-> "other", result |-> FrameOk, frame |-> frame]
    /\ UNCHANGED <<adapterSent, adapterCall, notAdapterVars>>

DecryptFrame ==
    /\ adapterWire.via # "none"
    /\ adapterWire.result.ok
    /\ ~adapterCall.done
    /\ \E key \in AdapterKeys :
        LET opened == decrypt_chunk_frame(adapterWire.frame, key)
        IN adapterCall' = [done |-> TRUE, key |-> key, result |-> opened.result,
                           chunk |-> opened.chunk]
    /\ UNCHANGED <<adapterSent, adapterWire, notAdapterVars>>

NextAdapter == EncryptFrame \/ HandOver \/ ReceiveBytes \/ ReceiveOther \/ DecryptFrame

---------------------------------------------------------------------------
(* SpecRoute: decide_route is called, and called again for the same NAT types *)
(* with candidates at other addresses                                         *)

\* Option<SocketAddr> values of the first and of the second call
FirstOptions  == { None, Some("198.51.100.7:4000") }
SecondOptions == { None, Some("203.0.113.9:5000") }

CandidateSets(local_candidate, options) ==
    { gather_candidates(local_candidate, reflexive, relay) :
        reflexive \in options, relay \in options }

InitRoute ==
    /\ NotRouteIdle
    /\ RouteIdle

DecideRoute ==
    /\ ~routeFirst.done
    /\ \E local_nat \in NatTypes, remote_nat \in NatTypes,
          local \in CandidateSets("192.168.1.2:9000", FirstOptions),
          remote \in CandidateSets("192.168.1.3:9000", FirstOptions) :
            routeFirst' = [done |-> TRUE, local_nat |-> local_nat, remote_nat |-> remote_nat,
                           local |-> local, remote |-> remote,
                           plan |-> decide_route(local_nat, remote_nat, local, remote)]
    /\ UNCHANGED <<routeSecond, notRouteVars>>

DecideRouteAgain ==
    /\ routeFirst.done
    /\ ~routeSecond.done
    /\ \E local \in CandidateSets("10.0.0.2:9000", SecondOptions),
          remote \in CandidateSets("10.0.0.3:9000", SecondOptions) :
            routeSecond' = [done |-> TRUE, local_nat |-> routeFirst.local_nat,
                            remote_nat |-> routeFirst.remote_nat,
                            local |-> local, remote |-> remote,
                            plan |-> decide_route(routeFirst.local_nat, routeFirst.remote_nat,
                                                  local, remote)]
    /\ UNCHANGED <<routeFirst, notRouteVars>>

NextRoute == DecideRoute \/ DecideRouteAgain

---------------------------------------------------------------------------
(* SpecOffline: a LanOfflineGuard whose offline mode is switched off and on *)
(* while peer addresses are evaluated                                       *)

\* peer addresses at and next to the edges of every range the guard knows
PeerIps ==
    { V4(127, 0, 0, 1), V4(127, 255, 255, 255), V4(126, 255, 255, 255), V4(128, 0, 0, 1),
      V4(169, 254, 10, 20), V4(169, 253, 255, 255), V4(169, 255, 0, 0), V4(170, 254, 0, 1),
      V4(10, 0, 0, 4), V4(10, 255, 255, 255), V4(9, 255, 255, 255), V4(11, 0, 0, 0),
      V4(172, 16, 0, 1), V4(172, 31, 255, 255), V4(172, 15, 255, 255), V4(172, 32, 0, 0),
      V4(192, 168, 1, 10), V4(192, 167, 255, 255), V4(192, 169, 0, 0), V4(193, 168, 0, 1),
      V4(8, 8, 8, 8), V4(1, 1, 1, 1), V4(0, 0, 0, 0), V4(255, 255, 255, 255),
      V6(<<0, 0, 0, 0, 0, 0, 0, 1>>), V6(<<0, 0, 0, 0, 0, 0, 0, 0>>),
      V6(<<0, 0, 0, 0, 0, 0, 0, 2>>), V6(<<1, 0, 0, 0, 0, 0, 0, 1>>),
      V6(<<65152, 0, 0, 0, 0, 0, 0, 4660>>), V6(<<65215, 65535, 0, 0, 0, 0, 0, 1>>),
      V6(<<65216, 0, 0, 0, 0, 0, 0, 1>>), V6(<<65151, 65535, 0, 0, 0, 0, 0, 1>>),
      V6(<<64512, 0, 0, 0, 0, 0, 0, 1>>), V6(<<65023, 65535, 0, 0, 0, 0, 0, 1>>),
      V6(<<65024, 0, 0, 0, 0, 0, 0, 1>>), V6(<<64511, 65535, 0, 0, 0, 0, 0, 1>>),
      V6(<<8193, 3512, 0, 0, 0, 0, 0, 1>>),
      V6(<<0, 0, 0, 0, 0, 65535, 2560, 4>>), V6(<<0, 0, 0, 0, 0, 65535, 32512, 1>>) }

PeerAddrs == { SocketAddr(ip, 9000) : ip \in PeerIps }

InitOffline ==
    /\ NotLanIdle
    /\ \E policy \in LanPolicies : lanGuard = LanOfflineGuardNew(policy)
    /\ lanCall = NoLanCall
    /\ lanSetCall = NoLanSetCall

EnableOfflineMode ==
    /\ lanGuard' = enable_offline_mode(lanGuard)
    /\ lanCall' = [op |-> "enable_offline_mode", addr |-> NoLanAddr, decision |-> Allow,
                   before |-> lanGuard]
    /\ lanSetCall' = NoLanSetCall
    /\ UNCHANGED notLanVars

DisableOfflineMode ==
    /\ lanGuard' = disable_offline_mode(lanGuard)
    /\ lanCall' = [op |-> "disable_offline_mode", addr |-> NoLanAddr, decision |-> Allow,
                   before |-> lanGuard]
    /\ lanSetCall' = NoLanSetCall
    /\ UNCHANGED notLanVars

\* evaluate_peer and validate_peer_set take &self: a query leaves the guard as it
\* was, so one query after another reaches only what the first one reaches
NotQueried == lanCall.op \in {"none", "enable_offline_mode", "disable_offline_mode"}

EvaluatePeer ==
    /\ NotQueried
    /\ \E addr \in PeerAddrs :
        lanCall' = [op |-> "evaluate_peer", addr |-> addr,
                    decision |-> evaluate_peer(lanGuard, addr), before |-> lanGuard]
    /\ lanSetCall' = NoLanSetCall
    /\ UNCHANGED <<lanGuard, notLanVars>>

\* the peers of a set, as the iteration meets them: one address of every class the
\* guard tells apart, and two public ones
SetPeers ==
    { SocketAddr(V4(127, 0, 0, 1), 9000), SocketAddr(V4(169, 254, 10, 20), 9000),
      SocketAddr(V4(192, 168, 1, 10), 9000), SocketAddr(V4(8, 8, 8, 8), 9000),
      SocketAddr(V6(<<64512, 0, 0, 0, 0, 0, 0, 1>>), 9000),
      SocketAddr(V6(<<8193, 3512, 0, 0, 0, 0, 0, 1>>), 9000) }

ValidatePeerSet ==
    /\ NotQueried
    /\ \E peers \in SeqsUpTo(SetPeers, MaxPeers) :
        lanSetCall' = [op |-> "validate_peer_set", peers |-> peers,
                       result |-> validate_peer_set(lanGuard, peers), before |-> lanGuard]
    /\ lanCall' = [op |-> "validate_peer_set", addr |-> NoLanAddr, decision |-> Allow,
                   before |-> lanGuard]
    /\ UNCHANGED <<lanGuard, notLanVars>>

NextOffline == EnableOfflineMode \/ DisableOfflineMode \/ EvaluatePeer \/ ValidatePeerSet

---------------------------------------------------------------------------
(* SpecAssemble: assemble_file on a drawn total_chunks and a drawn map of   *)
(* received chunks                                                          *)

AssemblePayloads == {<<>>, <<1>>, <<2>>, <<2, 1>>}

\* the maps from some of the indices 0..MaxDataLen to payloads
ChunkMaps == UNION {[indices -> AssemblePayloads] : indices \in SUBSET (0..MaxDataLen)}

InitAssemble ==
    /\ NotAssembleIdle
    /\ asmArgs \in [total_chunks : 0..(MaxDataLen + 1), chunks : ChunkMaps]
    /\ asmCall = NoAssembleCall

AssembleFile ==
    /\ ~asmCall.done
    /\ LET r == assemble_file(asmArgs.total_chunks, asmArgs.chunks)
       IN asmCall' = [done |-> TRUE, result |-> r.result, out |-> r.out]
    /\ UNCHANGED <<asmArgs, notAssembleVars>>

NextAssemble == AssembleFile

---------------------------------------------------------------------------
(* SpecIndex: a LargeFileManager is constructed for a file, and its chunk   *)
(* index is built for a file size                                           *)

IndexArgs == [transfer_id : TransferIds, data : SeqsUpTo(Bytes, MaxDataLen),
              chunk_size : 0..MaxChunkSize]

InitIndex ==
    /\ NotIndexIdle
    /\ idxArgs \in IndexArgs
    /\ idxMgr = PendingManager
    /\ idxCall = NoIndexCall

NewManager ==
    /\ idxMgr = PendingManager
    /\ idxMgr' = ManagerNew(idxArgs.transfer_id, Len(idxArgs.data), idxArgs.chunk_size)
    /\ UNCHANGED <<idxArgs, idxCall, notIndexVars>>

\* build_chunk_index takes &self and a file_size of its own, which need not be
\* the one the manager was constructed with
BuildChunkIndex ==
    /\ idxMgr.result.ok
    /\ \E file_size \in 0..(MaxDataLen + 1) :
        idxCall' = [done |-> TRUE, file_size |-> file_size,
                    index |-> build_chunk_index(idxMgr.mgr, file_size)]
    /\ UNCHANGED <<idxArgs, idxMgr, notIndexVars>>

NextIndex == NewManager \/ BuildChunkIndex

---------------------------------------------------------------------------
(* SpecLong: a TransferSession is constructed over data of up to 2^25 + 1   *)
(* bytes, and two of its chunks are wrapped with encrypt_chunk_frame under  *)
(* one key                                                                  *)

\* lengths of a few bytes, and lengths at the 2^24 chunks the nonce can tell apart
LongLengths == 0..MaxDataLen \cup {16777215, 16777216, 16777217, 33554433}

LongIndices == {0, 1, 2, 16777215, 16777216}

LongArgs == [transfer_id : TransferIds, data_len : LongLengths, chunk_size : 0..MaxChunkSize]

InitLong ==
    /\ NotLongIdle
    /\ longArgs \in LongArgs
    /\ longNew = PendingFilled
    /\ longCall = NoLongCall

CallNewFilled ==
    /\ longNew = PendingFilled
    /\ longNew' = SessionNewFilled(longArgs.transfer_id, longArgs.data_len,
                                   longArgs.chunk_size, <<"r1">>)
    /\ UNCHANGED <<longArgs, longCall, notLongVars>>

\* the sender takes two chunks of the session and wraps each for the wire
SendTwoChunks ==
    /\ longNew.result.ok
    /\ ~longCall.done
    /\ \E i \in LongIndices, j \in LongIndices, key \in AdapterKeys :
        LET first  == chunk_for_filled(longNew.session, i)
            second == chunk_for_filled(longNew.session, j)
        IN /\ first.result.ok
           /\ second.result.ok
           /\ longCall' = [done |-> TRUE, key |-> key,
                           first |-> first.chunk, second |-> second.chunk,
                           first_frame  |-> encrypt_chunk_frame(first.chunk, key).frame,
                           second_frame |-> encrypt_chunk_frame(second.chunk, key).frame]
    /\ UNCHANGED <<longArgs, longNew, notLongVars>>

NextLong == CallNewFilled \/ SendTwoChunks

---------------------------------------------------------------------------
(* SpecAudit: an AuditTelemetry is constructed with a retention policy,     *)
(* events are recorded and counters incremented                             *)

\* metadata without a key, with a sensitive key next to another one, and with
\* the other sensitive keys next to a key that differs from one in its case
AuditMetadata ==
    { EmptyMap,
      [k \in {"file_name", "transfer_id"} |->
          IF k = "file_name" THEN "secret.pdf" ELSE "42"],
      [k \in {"file_path", "receiver_name", "sender_name", "payload", "File_Name"} |->
          IF k = "payload" THEN REDACTED ELSE "value" ] }

AuditEvents == [timestamp_ms : {1, 2}, category : {"transfer"}, action : {"sent"},
                metadata : AuditMetadata]

Metrics == {"transfers.completed", "transfers.failed"}

RECURSIVE SumOfCounters(_, _)
SumOfCounters(counters, keys) ==
    IF keys = {} THEN 0
    ELSE LET k == CHOOSE x \in keys : TRUE
         IN counters[k] + SumOfCounters(counters, keys \ {k})

InitAudit ==
    /\ NotAuditIdle
    /\ \E max_events \in 0..MaxRetained : telemetry = TelemetryNew(RetentionPolicy(max_events))
    /\ recorded = <<>>

RecordEvent ==
    /\ Len(recorded) < MaxRecorded
    /\ \E event \in AuditEvents :
        /\ telemetry' = record_event(telemetry, event)
        /\ recorded' = Append(recorded, event)
    /\ UNCHANGED notAuditVars

IncrementCounter ==
    /\ SumOfCounters(telemetry.counters, DOMAIN telemetry.counters) < MaxCounted
    /\ \E metric \in Metrics : telemetry' = increment_counter(telemetry, metric)
    /\ UNCHANGED <<recorded, notAuditVars>>

NextAudit == RecordEvent \/ IncrementCounter

---------------------------------------------------------------------------
(* The specifications *)

SpecSession == InitSession /\ [][NextSession]_vars
SpecNew     == InitNew /\ [][NextNew]_vars
SpecManager == InitManager /\ [][NextManager]_vars
SpecGuard   == InitGuard /\ [][NextGuard]_vars
SpecHello   == InitHello /\ [][NextHello]_vars
SpecNegotiate == InitNegotiate /\ [][NextNegotiate]_vars
SpecKeys    == InitKeys /\ [][NextKeys]_vars
SpecFrame   == InitFrame /\ [][NextFrame]_vars
SpecEnvelope == InitEnvelope /\ [][NextEnvelope]_vars
SpecAdapter == InitAdapter /\ [][NextAdapter]_vars
SpecRoute   == InitRoute /\ [][NextRoute]_vars
SpecOffline == InitOffline /\ [][NextOffline]_vars
SpecAssemble == InitAssemble /\ [][NextAssemble]_vars
SpecIndex   == InitIndex /\ [][NextIndex]_vars
SpecLong    == InitLong /\ [][NextLong]_vars
SpecAudit   == InitAudit /\ [][NextAudit]_vars

---------------------------------------------------------------------------
(* The claims about TransferSession under acks (SpecSession) *)

Acked(s, id) == s.receivers[id].acked_up_to_exclusive

AckedBounded ==
    \A id \in DOMAIN session.receivers : Acked(session, id) <= session.total_chunks

AckedNeverRegresses ==
    \A id \in DOMAIN session.receivers :
        /\ id \in DOMAIN session'.receivers
        /\ Acked(session', id) >= Acked(session, id)

\* C1: through any sequence of apply_ack calls, accepted or rejected, for any
\* receivers and in any order, no receiver's acked_up_to_exclusive ever decreases
\* (no step lowers it, so it is >= its value in every earlier state), and it is
\* <= total_chunks in every state.
C1_AckMonotonicBounded == []AckedBounded /\ [][AckedNeverRegresses]_vars

\* C1 witness: a receiver that already stands at total_chunks was sent a lower
\* ack, which was accepted
C1_StaleAckAtEnd ==
    /\ sessionCall.op = "apply_ack"
    /\ sessionCall.result.ok
    /\ sessionCall.ack.next_expected_chunk
          < Acked(sessionCall.before, sessionCall.ack.receiver_id)
    /\ Acked(session, sessionCall.ack.receiver_id) = session.total_chunks

\* the checkpoints carried by the accepted acks addressed to a receiver
AcceptedFor(id) ==
    {a.next_expected_chunk : a \in {b \in accepted : b.receiver_id = id}}

MaxOf(S) == IF S = {} THEN 0 ELSE CHOOSE m \in S : \A x \in S : x <= m

\* C2: after any sequence of apply_ack calls, resume_from_for_receiver(r) is the
\* largest next_expected_chunk among the accepted acks addressed to r, 0 if there
\* is none: a function of the set of accepted acks alone, so neither their order,
\* nor a repetition, nor the acks of other receivers matter; and an apply_ack call
\* leaves transfer_id, total_chunks, chunk_size, data and the record of every
\* other receiver as they were.
C2_ResumeIsMaxAccepted ==
    /\ \A id \in DOMAIN session.receivers :
          resume_from_for_receiver(session, id) =
              [result |-> Ok, value |-> MaxOf(AcceptedFor(id))]
    /\ sessionCall.op = "apply_ack" =>
          LET b == sessionCall.before
          IN /\ session.transfer_id = b.transfer_id
             /\ session.total_chunks = b.total_chunks
             /\ session.chunk_size = b.chunk_size
             /\ session.data = b.data
             /\ DOMAIN session.receivers = DOMAIN b.receivers
             /\ \A id \in DOMAIN b.receivers \ {sessionCall.ack.receiver_id} :
                    session.receivers[id] = b.receivers[id]
             /\ \A id \in DOMAIN b.receivers :
                    /\ session.receivers[id].receiver_id = b.receivers[id].receiver_id
                    /\ session.receivers[id].total_chunks = b.receivers[id].total_chunks

\* C2 witness: both receivers have accepted acks, one of them several with
\* different checkpoints, and the last ack was a stale one for that receiver
C2_SeveralAcksAccepted ==
    /\ sessionCall.op = "apply_ack"
    /\ sessionCall.result.ok
    /\ \A id \in ReceiverNames : id \in DOMAIN session.receivers /\ AcceptedFor(id) # {}
    /\ Cardinality(AcceptedFor(sessionCall.ack.receiver_id)) >= 2
    /\ sessionCall.ack.next_expected_chunk
          < Acked(session, sessionCall.ack.receiver_id)
    /\ Acked(session, "r1") # Acked(session, "r2")

\* C3: apply_ack returns WrongTransfer if the ack's transfer_id is not the
\* session's, otherwise UnknownReceiver if its receiver_id is not listed,
\* otherwise AckOutOfRange if next_expected_chunk > total_chunks, otherwise Ok
\* (next_expected_chunk = total_chunks included); whenever it returns an error
\* the session is as it was before the call.
C3_AckErrorPrecedence ==
    sessionCall.op = "apply_ack" =>
        LET b   == sessionCall.before
            ack == sessionCall.ack
        IN /\ sessionCall.result =
                 IF ack.transfer_id # b.transfer_id THEN Err("WrongTransfer")
                 ELSE IF ack.receiver_id \notin DOMAIN b.receivers THEN Err("UnknownReceiver")
                 ELSE IF ack.next_expected_chunk > b.total_chunks THEN Err("AckOutOfRange")
                 ELSE Ok
           /\ ~sessionCall.result.ok => session = b

\* C3 witness: an ack wrong in all three ways was answered WrongTransfer
C3_WrongInEveryWay ==
    /\ sessionCall.op = "apply_ack"
    /\ sessionCall.ack.transfer_id # session.transfer_id
    /\ sessionCall.ack.receiver_id \notin DOMAIN session.receivers
    /\ sessionCall.ack.next_expected_chunk > session.total_chunks
    /\ sessionCall.result = Err("WrongTransfer")
    /\ \E id \in DOMAIN session.receivers : Acked(session, id) = session.total_chunks

EveryReceiverAtEnd ==
    \A id \in DOMAIN session.receivers : Acked(session, id) >= session.total_chunks

Fresh == sessionCall.op = "none"

\* C4 as claimed: all_complete() is true if and only if every listed receiver has
\* acked_up_to_exclusive >= total_chunks, and a freshly constructed session is not
\* complete.
C4_FreshNeverComplete ==
    /\ all_complete(session) <=> EveryReceiverAtEnd
    /\ Fresh => ~all_complete(session)

\* C4 as amended: all_complete() is true if and only if every listed receiver has
\* acked_up_to_exclusive >= total_chunks, so it is false while any one receiver is
\* behind; a freshly constructed session that lists at least one receiver and has
\* total_chunks >= 1 is not complete.
C4_CompleteIffEveryReceiver ==
    /\ all_complete(session) <=> EveryReceiverAtEnd
    /\ (\E id \in DOMAIN session.receivers : Acked(session, id) < session.total_chunks)
          => ~all_complete(session)
    /\ (Fresh /\ DOMAIN session.receivers # {} /\ session.total_chunks >= 1)
          => ~all_complete(session)

\* C4 witness: one of two receivers has everything, the other has not, and the
\* session is not complete
C4_OneReceiverBehind ==
    /\ DOMAIN session.receivers = ReceiverNames
    /\ Acked(session, "r1") = session.total_chunks
    /\ Acked(session, "r2") < session.total_chunks
    /\ ~all_complete(session)

---------------------------------------------------------------------------
(* The claims about TransferSession::new and chunk_for (SpecNew) *)

Range(f) == {f[i] : i \in DOMAIN f}

\* ceil(n / d) for d > 0: the least k with k * d >= n
CeilOf(n, d) == CHOOSE k \in 0..n : k * d >= n /\ \A j \in 0..(k - 1) : j * d < n

RECURSIVE Payloads(_, _)
\* the payloads of chunks 0 .. n-1 in index order, one after the other
Payloads(s, n) == IF n = 0 THEN <<>>
                  ELSE Payloads(s, n - 1) \o chunk_for(s, n - 1).chunk.payload

ChunkForAnswers ==
    chunkCall.op = "chunk_for" =>
        LET s == newResult.session
            i == chunkCall.chunk_index
        IN IF i < s.total_chunks
           THEN /\ chunkCall.result = Ok
                /\ chunkCall.chunk =
                      [transfer_id  |-> s.transfer_id,
                       chunk_index  |-> i,
                       total_chunks |-> s.total_chunks,
                       payload      |-> SubSeq(s.data, i * s.chunk_size + 1,
                                               Min((i + 1) * s.chunk_size, Len(s.data)))]
           ELSE chunkCall.result = Err("ChunkOutOfRange")

ChunksTileData ==
    newResult.result.ok =>
        LET s == newResult.session
        IN /\ \A i \in 0..(s.total_chunks - 1) : chunk_for(s, i).result = Ok
           /\ Payloads(s, s.total_chunks) = s.data
           /\ \A i \in 0..(s.total_chunks - 2) :
                  Len(chunk_for(s, i).chunk.payload) = s.chunk_size

---------------------------------------------------------------------------
(* The claims about LargeFileManager (SpecManager) *)

LifecycleStep ==
    LET from == mgr.checkpoint.state
        to   == mgr'.checkpoint.state
        op   == lfmCall'.op
    IN /\ from # to =>
             \/ from = "Running" /\ to = "Paused" /\ op = "pause"
             \/ from = "Paused" /\ to = "Running" /\ op = "resume"
             \/ from \in {"Running", "Paused"} /\ to = "Cancelled" /\ op = "cancel"
       /\ from = "Cancelled" =>
             /\ mgr' = mgr
             /\ op \in {"pause", "resume", "update_next_chunk"} => ~lfmCall'.result.ok

\* C7: a manager starts Running; the state changes only Running -> Paused by
\* pause, Paused -> Running by resume and Running or Paused -> Cancelled by
\* cancel; from Cancelled no pause, resume, update_next_chunk or cancel changes
\* the state or next_chunk, and pause, resume and update_next_chunk return an
\* error.
C7_CancelledIsTerminal ==
    /\ [](lfmCall.op = "none" => mgr.checkpoint.state = "Running")
    /\ [][LifecycleStep]_vars

\* C7 witness: a transfer with progress was cancelled and then given an update
\* that is in range, which failed
C7_UpdateAfterCancel ==
    /\ lfmCall.op = "update_next_chunk"
    /\ lfmCall.before.checkpoint.state = "Cancelled"
    /\ lfmCall.before.checkpoint.next_chunk >= 1
    /\ lfmCall.arg > lfmCall.before.checkpoint.next_chunk
    /\ lfmCall.arg <= mgr.total_chunks
    /\ lfmCall.result = Err("InvalidState")
    /\ mgr = lfmCall.before

\* C8: pause() from Paused and resume() from Running succeed and change nothing,
\* so either called twice in a row leaves what calling it once leaves and
\* returns the same; from Cancelled both fail with InvalidState and change
\* nothing; neither ever changes next_chunk, transfer_id, total_chunks or
\* chunk_size.
C8_PauseResumeIdempotent ==
    LET p1 == pause(mgr)
        p2 == pause(p1.mgr)
        r1 == resume(mgr)
        r2 == resume(r1.mgr)
        state == mgr.checkpoint.state
    IN /\ state = "Paused" => p1 = [result |-> Ok, mgr |-> mgr]
       /\ state = "Running" => r1 = [result |-> Ok, mgr |-> mgr]
       /\ p2 = [result |-> p1.result, mgr |-> p1.mgr]
       /\ r2 = [result |-> r1.result, mgr |-> r1.mgr]
       /\ state = "Cancelled" =>
             /\ p1 = [result |-> Err("InvalidState"), mgr |-> mgr]
             /\ r1 = [result |-> Err("InvalidState"), mgr |-> mgr]
       /\ p1.mgr = [mgr EXCEPT !.checkpoint.state = p1.mgr.checkpoint.state]
       /\ r1.mgr = [mgr EXCEPT !.checkpoint.state = r1.mgr.checkpoint.state]
       /\ lfmCall.op \in {"pause", "resume"} =>
             /\ mgr = [lfmCall.before EXCEPT !.checkpoint.state = mgr.checkpoint.state]
             /\ lfmCall.result.ok <=> lfmCall.before.checkpoint.state # "Cancelled"

\* C8 witness: pause was called on a paused transfer with progress
C8_PausedTwice ==
    /\ lfmCall.op = "pause"
    /\ lfmCall.before.checkpoint.state = "Paused"
    /\ lfmCall.before.checkpoint.next_chunk >= 1
    /\ lfmCall.result = Ok
    /\ mgr = lfmCall.before

\* C9: update_next_chunk(n) fails with ChunkOutOfRange if n > total_chunks, on a
\* Cancelled transfer too; otherwise fails with InvalidState if the transfer is
\* Cancelled; otherwise succeeds, Running or Paused, and sets next_chunk to
\* max(next_chunk, n), changing nothing else. So next_chunk <= total_chunks in
\* every state, no call of any kind lowers next_chunk, and an error leaves the
\* manager as it was.
C9_UpdateNextChunk ==
    /\ mgr.checkpoint.next_chunk <= mgr.total_chunks
    /\ lfmCall.op # "none" =>
          mgr.checkpoint.next_chunk >= lfmCall.before.checkpoint.next_chunk
    /\ lfmCall.op = "update_next_chunk" =>
          LET b == lfmCall.before
              n == lfmCall.arg
          IN IF n > b.total_chunks
             THEN lfmCall.result = Err("ChunkOutOfRange") /\ mgr = b
             ELSE IF b.checkpoint.state = "Cancelled"
             THEN lfmCall.result = Err("InvalidState") /\ mgr = b
             ELSE /\ lfmCall.result = Ok
                  /\ mgr = [b EXCEPT !.checkpoint.next_chunk = Max(@, n)]

\* C9 witness: a paused transfer that stood at its last chunk was given a lower
\* checkpoint, which succeeded
C9_StaleUpdateWhilePaused ==
    /\ lfmCall.op = "update_next_chunk"
    /\ lfmCall.before.checkpoint.state = "Paused"
    /\ lfmCall.before.checkpoint.next_chunk = mgr.total_chunks
    /\ lfmCall.arg < mgr.total_chunks
    /\ lfmCall.arg >= 1
    /\ lfmCall.result = Ok

\* C10: for a manager in any reachable state, load_checkpoint of what
\* save_checkpoint writes returns exactly the manager's current checkpoint
\* {transfer_id, next_chunk, state}: for the file as it stands right after a
\* successful save, and for a load_checkpoint call made while the file holds the
\* save of the current state; and save_checkpoint, failed or not, does not change
\* the manager.
C10_CheckpointRoundTrip ==
    LET saved == save_checkpoint(mgr, file, TRUE)
    IN /\ saved.result = Ok
       /\ load_checkpoint(saved.file) = [result |-> Ok, checkpoint |-> mgr.checkpoint]
       /\ lfmCall.op = "save_checkpoint" =>
             /\ mgr = lfmCall.before
             /\ lfmCall.result.ok => file = saved.file
       /\ (lfmCall.op = "load_checkpoint" /\ file = saved.file) =>
             /\ lfmCall.result = Ok
             /\ lfmCall.loaded = mgr.checkpoint

\* C10 witness: the checkpoint of a cancelled transfer 105 with progress was
\* saved and loaded back
C10_LoadedCancelled ==
    /\ lfmCall.op = "load_checkpoint"
    /\ lfmCall.result = Ok
    /\ file = save_checkpoint(mgr, file, TRUE).file
    /\ lfmCall.loaded = mgr.checkpoint
    /\ mgr.checkpoint.state = "Cancelled"
    /\ mgr.checkpoint.next_chunk >= 2
    /\ mgr.checkpoint.transfer_id = 105

---------------------------------------------------------------------------
(* The claims about ReplayGuard (SpecGuard) *)

Checks == {i \in 1..Len(guardLog) : guardLog[i].op = "check_and_remember"}

NonDecreasingTimes ==
    \A i, j \in 1..Len(guardLog) : i <= j => guardLog[i].now <= guardLog[j].now

\* the earlier calls that accepted the nonce of call i no longer than ttl before it
AcceptedInWindow(i) ==
    {j \in Checks : /\ j < i
                    /\ guardLog[j].nonce = guardLog[i].nonce
                    /\ guardLog[j].result
                    /\ guardLog[i].now - guardLog[j].now <= guard.ttl}

\* C11: in a sequence of calls on one guard with non-decreasing times, a
\* check_and_remember call returns true if and only if no earlier call accepted
\* the same nonce at a time no more than ttl before it; a rejected call leaves the
\* remembered time at the time of the call that accepted the nonce, and an
\* accepted call remembers its own time.
C11_TrueIffNotAcceptedWithinTtl ==
    NonDecreasingTimes =>
        \A i \in Checks :
            /\ guardLog[i].result <=> AcceptedInWindow(i) = {}
            /\ guardLog[i].result => guardLog[i].remembered = guardLog[i].now
            /\ ~guardLog[i].result =>
                   \E j \in AcceptedInWindow(i) : guardLog[i].remembered = guardLog[j].now

\* C11 witness: a nonce was accepted, rejected within ttl of that, and accepted
\* again more than ttl after the first call but within ttl of the rejected one
C11_AcceptedRejectedAccepted ==
    /\ NonDecreasingTimes
    /\ Len(guardLog) >= 3
    /\ \A i \in 1..3 : guardLog[i].op = "check_and_remember" /\ guardLog[i].nonce = guardLog[1].nonce
    /\ guardLog[1].result /\ ~guardLog[2].result /\ guardLog[3].result
    /\ guardLog[3].now - guardLog[2].now <= guard.ttl

\* the calls served so far that presented this nonce
PresentationsOf(nonce) == {i \in Checks : guardLog[i].nonce = nonce}

\* the presentations of the nonce were all made and served within one ttl window:
\* none of them read the clock more than ttl ago
WithinOneTtlWindow(nonce) ==
    \A i \in PresentationsOf(nonce) : clock - guardLog[i].now <= guard.ttl

---------------------------------------------------------------------------
(* The claims about the hellos (SpecHello) *)

\* the ttl the test gives its ReplayGuard, in seconds
ReplayTtl == 10

\* C13: once verify_client_hello has accepted a ClientHello, verifying the
\* identical ClientHello again no later than the replay ttl after that is not
\* accepted.
C13_ReplayIsNotAccepted ==
    [][(/\ helloCall.op = "verify_client_hello" /\ helloCall.result.ok
        /\ helloCall'.op = "verify_client_hello" /\ chWire' = chWire
        /\ helloCall'.now_secs >= helloCall.now_secs
        /\ helloCall'.now_secs - helloCall.now_secs <= ReplayTtl)
       => ~helloCall'.result.ok]_vars

\* |a - b|
AbsDiff(a, b) == LET d == a - b IN IF d < 0 THEN 0 - d ELSE d

ClientSkewed == AbsDiff(chWire.timestamp_secs, helloCall.now_secs) > helloCall.max_skew_secs
ServerSkewed == AbsDiff(shWire.timestamp_secs, helloCall.now_secs) > helloCall.max_skew_secs

\* C14: verify_client_hello returns TimestampSkew if and only if the hello's
\* timestamp and now differ by more than max_skew, in either direction and
\* whatever the signature is; a hello as create_client_hello made it verifies
\* whenever they differ by no more than max_skew.
C14_TimestampSkewIffBeyondMaxSkew ==
    helloCall.op = "verify_client_hello" =>
        /\ helloCall.result = Err("TimestampSkew") <=> ClientSkewed
        /\ (chWire = chSent /\ ~ClientSkewed) => helloCall.result = Ok

\* C14 witness: a hello stamped exactly max_skew in the future was verified and
\* accepted
C14_FutureByExactlyMaxSkew ==
    /\ helloCall.op = "verify_client_hello"
    /\ chWire = chSent
    /\ helloCall.max_skew_secs >= 1
    /\ chWire.timestamp_secs = helloCall.now_secs + helloCall.max_skew_secs
    /\ helloCall.result = Ok

\* C15: verify_server_hello succeeds only if the hello carries the nonce the
\* client sent; a different nonce gives NonceMismatch whatever the timestamp and
\* the signature are, then a timestamp beyond max_skew gives TimestampSkew, then
\* a hello changed under an unchanged key gives InvalidSignature; the hello
\* create_server_hello makes echoes the client's nonce and verifies against it.
C15_NonceMismatchFirst ==
    helloCall.op = "verify_server_hello" =>
        LET mismatch == shWire.client_nonce # chSent.nonce
        IN /\ helloCall.expected_client_nonce = chSent.nonce
           /\ helloCall.result.ok => ~mismatch
           /\ mismatch => helloCall.result = Err("NonceMismatch")
           /\ ~mismatch => (helloCall.result = Err("TimestampSkew") <=> ServerSkewed)
           /\ (/\ ~mismatch /\ ~ServerSkewed /\ shWire # shSent
               /\ shWire.public_key_b64 = shSent.public_key_b64)
                  => helloCall.result = Err("InvalidSignature")
           /\ shSent.client_nonce = chSent.nonce
           /\ (shWire = shSent /\ ~ServerSkewed) => helloCall.result = Ok

\* C15 witness: a hello with another client nonce and a timestamp beyond max_skew
\* was verified
C15_WrongNonceAndSkewed ==
    /\ helloCall.op = "verify_server_hello"
    /\ shWire.client_nonce # chSent.nonce
    /\ ServerSkewed
    /\ helloCall.result = Err("NonceMismatch")

\* C16 as stated: a hello changed in one field after signing is answered with
\* InvalidSignature.
C16_TamperedIsInvalidSignature ==
    /\ (helloCall.op = "verify_client_hello" /\ chWire # chSent)
           => helloCall.result = Err("InvalidSignature")
    /\ (helloCall.op = "verify_server_hello" /\ shWire # shSent)
           => helloCall.result = Err("InvalidSignature")

\* what decoding the public key of a hello fails with
KeyError(public_key) ==
    LET d == B64Decode(public_key)
    IN IF ~d.ok THEN "Identity(InvalidBase64)"
       ELSE IF Len(d.bytes) # KeyLen \/ ~IsVerifyingKey(d.bytes) THEN "Identity(InvalidKey)"
       ELSE "None"

\* C16: a hello changed in one field after signing is rejected: with
\* NonceMismatch when it is a ServerHello whose client_nonce was changed, else
\* with TimestampSkew when the timestamp it carries is beyond max_skew, else with
\* the identity error when its public key does not decode to a key, else with
\* InvalidSignature.
C16_TamperedIsRejected ==
    /\ (helloCall.op = "verify_client_hello" /\ chWire # chSent) =>
           helloCall.result =
               Err(IF ClientSkewed THEN "TimestampSkew"
                   ELSE IF KeyError(chWire.public_key_b64) # "None"
                        THEN KeyError(chWire.public_key_b64)
                   ELSE "InvalidSignature")
    /\ (helloCall.op = "verify_server_hello" /\ shWire # shSent) =>
           helloCall.result =
               Err(IF shWire.client_nonce # chSent.nonce THEN "NonceMismatch"
                   ELSE IF ServerSkewed THEN "TimestampSkew"
                   ELSE IF KeyError(shWire.public_key_b64) # "None"
                        THEN KeyError(shWire.public_key_b64)
                   ELSE "InvalidSignature")

\* C16 witness: the mode of a ClientHello created with Optional was changed to
\* Required, and the hello was verified at the time it was stamped with
C16_ModeRaisedAfterSigning ==
    /\ helloCall.op = "verify_client_hello"
    /\ chSent.capabilities.preferred_encryption_mode = "Optional"
    /\ chWire = [chSent EXCEPT !.capabilities.preferred_encryption_mode = "Required"]
    /\ helloCall.now_secs = chWire.timestamp_secs
    /\ helloCall.result = Err("InvalidSignature")

---------------------------------------------------------------------------
(* The claims about negotiate_encryption (SpecNegotiate) *)

Invalid(capabilities) ==
    ~capabilities.supports_encryption /\ capabilities.preferred_encryption_mode # "Off"

\* what the claim says negotiate_encryption returns for the pair
ClaimedOutcome(client, server) ==
    LET either(mode) == \/ client.preferred_encryption_mode = mode
                        \/ server.preferred_encryption_mode = mode
        both         == client.supports_encryption /\ server.supports_encryption
    IN IF Invalid(client) \/ Invalid(server)
       THEN [result |-> Err("InvalidCapabilities"), negotiated |-> [enabled |-> FALSE, mode |-> "Off"]]
       ELSE IF either("Required") /\ ~both
       THEN [result     |-> Err("EncryptionRequiredButUnsupported"),
             negotiated |-> [enabled |-> FALSE, mode |-> "Off"]]
       ELSE IF ~both THEN [result |-> Ok, negotiated |-> [enabled |-> FALSE, mode |-> "Off"]]
       ELSE IF either("Required")
       THEN [result |-> Ok, negotiated |-> [enabled |-> TRUE, mode |-> "Required"]]
       ELSE IF either("Optional")
       THEN [result |-> Ok, negotiated |-> [enabled |-> TRUE, mode |-> "Optional"]]
       ELSE [result |-> Ok, negotiated |-> [enabled |-> FALSE, mode |-> "Off"]]

\* C17: for every pair of capabilities negotiate_encryption returns
\* InvalidCapabilities when a side that does not support encryption prefers a mode
\* other than Off, and otherwise the outcome of the claim's table.
C17_NegotiationTable ==
    /\ negResult # NotNegotiated => negResult = ClaimedOutcome(negArgs.client, negArgs.server)
    /\ negSwapped # NotNegotiated => negSwapped = ClaimedOutcome(negArgs.server, negArgs.client)

\* C17 witness: a side without support prefers Optional while the other requires
\* encryption and supports it: the answer is InvalidCapabilities
C17_InvalidBeforeRequired ==
    /\ Invalid(negArgs.client)
    /\ negArgs.server.preferred_encryption_mode = "Required" /\ negArgs.server.supports_encryption
    /\ negResult.result = Err("InvalidCapabilities")

\* C18: negotiate_encryption(a, b) and negotiate_encryption(b, a) give the same
\* outcome, the same NegotiatedEncryption or the same error.
C18_NegotiationSymmetric ==
    (negResult # NotNegotiated /\ negSwapped # NotNegotiated) => negResult = negSwapped

\* C18 witness: only the server requires encryption, both support it, and both
\* calls were made
C18_OnlyServerRequires ==
    /\ negArgs.client = [supports_encryption |-> TRUE, preferred_encryption_mode |-> "Off"]
    /\ negArgs.server = [supports_encryption |-> TRUE, preferred_encryption_mode |-> "Required"]
    /\ negResult = Negotiated(TRUE, "Required")
    /\ negSwapped = Negotiated(TRUE, "Required")

---------------------------------------------------------------------------
(* The claims about derive_session_keys (SpecKeys) *)

\* the inputs of a derivation other than the role
Tuple(d) == <<d.client_public_key_b64, d.server_public_key_b64, d.client_nonce, d.server_nonce>>

\* the keys of the two directions, whichever role derived them
c2s_key(d) == IF d.is_client THEN d.keys.tx_key ELSE d.keys.rx_key
s2c_key(d) == IF d.is_client THEN d.keys.rx_key ELSE d.keys.tx_key

\* C19: for the same inputs the keys derived as client and as server mirror each
\* other, client.tx_key = server.rx_key and client.rx_key = server.tx_key, and
\* within one role tx_key differs from rx_key.
C19_KeysMirror ==
    /\ \A d \in {keysFirst, keysSecond} : d.done => d.keys.tx_key # d.keys.rx_key
    /\ (/\ keysFirst.done /\ keysSecond.done
        /\ Tuple(keysFirst) = Tuple(keysSecond)
        /\ keysFirst.is_client /\ ~keysSecond.is_client)
           => /\ keysFirst.keys.tx_key = keysSecond.keys.rx_key
              /\ keysFirst.keys.rx_key = keysSecond.keys.tx_key

\* C19 witness: the same inputs were derived from as client and as server
C19_BothRolesDerived ==
    /\ keysFirst.done /\ keysSecond.done
    /\ Tuple(keysFirst) = Tuple(keysSecond)
    /\ keysFirst.is_client /\ ~keysSecond.is_client
    /\ keysFirst.client_public_key_b64 # keysFirst.server_public_key_b64

\* C20: two derivations whose inputs differ in any component yield different c2s
\* keys and different s2c keys.
C20_KeysBoundToEveryInput ==
    (keysFirst.done /\ keysSecond.done /\ Tuple(keysFirst) # Tuple(keysSecond))
        => /\ c2s_key(keysFirst) # c2s_key(keysSecond)
           /\ s2c_key(keysFirst) # s2c_key(keysSecond)

---------------------------------------------------------------------------
(* The claims about the chunk frames (SpecFrame) *)

\* the data-model invariants of a chunk: total_chunks >= 1 and chunk_index < total_chunks
WithinBounds(c) == c.total_chunks >= 1 /\ c.chunk_index < c.total_chunks

\* the bytes that reached the decoders are the bytes encode returned
Untouched == frameCall.done /\ frameBytes = frameIn.bytes

\* C21: a frame round-trips in both wire versions: decoding the bytes encode
\* returned for a v1 chunk within the chunk bounds gives that chunk back, and
\* decoding the bytes encode returned for a v2 chunk of protocol_version 2
\* (within the chunk bounds too, with either flag, any nonce, aad and payload)
\* gives that chunk back
C21_FramesRoundTrip ==
    /\ (Untouched /\ frameIn.version = "V1" /\ WithinBounds(frameIn.v1))
         => (frameCall.v1.result.ok /\ frameCall.v1.chunk = frameIn.v1)
    /\ (Untouched /\ frameIn.version = "V2" /\ WithinBounds(frameIn.v2)
                  /\ frameIn.v2.protocol_version = 2)
         => (frameCall.v2.result.ok /\ frameCall.v2.chunk = frameIn.v2)

StartsWith(bytes, magic) == Len(bytes) >= 4 /\ SubSeq(bytes, 1, 4) = magic

\* C22: VersionedTransferChunk::decode(b) is V1(x) exactly when b starts with
\* the v1 magic and TransferChunk::decode(b) is Ok(x), is V2(y) exactly when b
\* starts with the v2 magic and TransferChunkV2::decode(b) is Ok(y), and is
\* InvalidFrame in every other case
C22_DispatchOnMagic ==
    frameCall.done =>
        LET r    == frameCall.versioned
            asV1 == StartsWith(frameBytes, MAGIC_V1) /\ frameCall.v1.result.ok
            asV2 == StartsWith(frameBytes, MAGIC_V2) /\ frameCall.v2.result.ok
        IN /\ (r.result.ok /\ r.version = "V1") <=> asV1
           /\ asV1 => r.v1 = frameCall.v1.chunk
           /\ (r.result.ok /\ r.version = "V2") <=> asV2
           /\ asV2 => r.v2 = frameCall.v2.chunk
           /\ (~asV1 /\ ~asV2) => (~r.result.ok /\ r.result.err = "InvalidFrame")
           /\ r.result.ok => r.version \in {"V1", "V2"}

\* a v2 frame reaches the versioned decoder and comes out as V2, and so does a v1 frame as V1
C22_V2FrameDecodedAsV2 ==
    /\ frameCall.done
    /\ frameIn.version = "V2"
    /\ frameCall.versioned.result.ok
    /\ frameCall.versioned.version = "V2"
    /\ frameCall.versioned.v2 = frameIn.v2
    /\ frameIn.v2.aad # <<>>

---------------------------------------------------------------------------
(* The claims about the envelope (SpecEnvelope) *)

\* the one tag byte compute_tag returns
TagLen == 1

\* the receiver called decrypt with exactly the sender's key, nonce, aad and ciphertext
SameArguments ==
    /\ envOpened.done
    /\ envOpened.key = envSealed.key
    /\ envOpened.nonce = envSealed.nonce
    /\ envOpened.aad = envSealed.aad
    /\ envOpened.ciphertext = envSealed.ciphertext

\* C26: decrypting what encrypt_chunk_with_aad returned, with the same key,
\* nonce and aad, gives the plaintext back (the empty one too), and the
\* ciphertext is as long as the plaintext plus one tag
C26_EnvelopeRoundTrip ==
    /\ envSealed.done => Len(envSealed.ciphertext) = Len(envSealed.plaintext) + TagLen
    /\ SameArguments => (envOpened.result.ok
                         /\ envOpened.result.plaintext = envSealed.plaintext)

\* the empty plaintext went through encrypt and decrypt under a non-empty aad
C26_EmptyPlaintextOpened ==
    /\ SameArguments
    /\ envSealed.plaintext = <<>>
    /\ envSealed.aad # <<>>
    /\ envOpened.result.ok

\* C27: decrypting a ciphertext with a different key, a different nonce, a
\* different aad, or with one of its bytes changed fails with
\* DecryptionFailure and never returns a plaintext
C27_AnyChangeFails ==
    (envOpened.done /\ ~SameArguments)
        => (~envOpened.result.ok /\ envOpened.result.err = "DecryptionFailure")

\* C28: two (transfer_id, chunk_index, direction) triples that differ in a
\* component have different nonces
C28_NonceInjective ==
    (nonceCall.done /\ nonceCall.first # nonceCall.second)
        => nonceCall.first_nonce # nonceCall.second_nonce

\* 2^24: the chunk indices below it fit the three bytes the nonce keeps
IndexLimit == 16777216

\* C28 as amended: two triples with chunk_index < 2^24 that differ in a
\* component have different nonces, and every nonce is 12 bytes long with the
\* direction tag 1 or 2 in its last byte
C28_NonceInjectiveBelowLimit ==
    nonceCall.done =>
        /\ Len(nonceCall.first_nonce) = 12
        /\ nonceCall.first_nonce[12] =
             (IF nonceCall.first.direction = "SenderToReceiver" THEN 1 ELSE 2)
        /\ SubSeq(nonceCall.first_nonce, 1, 8) = BEBytes(nonceCall.first.transfer_id, 8)
        /\ (/\ nonceCall.first # nonceCall.second
            /\ nonceCall.first.chunk_index < IndexLimit
            /\ nonceCall.second.chunk_index < IndexLimit)
              => nonceCall.first_nonce # nonceCall.second_nonce

\* two triples that differ in the middle byte of the chunk index only
C28_IndicesOneAndFiveTwelve ==
    /\ nonceCall.done
    /\ nonceCall.first.chunk_index = 1
    /\ nonceCall.second.chunk_index = 512
    /\ nonceCall.first.transfer_id = nonceCall.second.transfer_id
    /\ nonceCall.first.direction = nonceCall.second.direction
    /\ nonceCall.first_nonce # nonceCall.second_nonce

---------------------------------------------------------------------------
(* The claims about the frame adapters (SpecAdapter) *)

\* the receiver was given the sender's frame, in memory or parsed from its bytes
SendersFrame == adapterWire.via \in {"memory", "wire"}

C24_PlaintextFrameRejected ==
    (adapterCall.done /\ adapterWire.frame.encryption_flag # "Encrypted")
        => /\ adapterCall.result = InvalidFrame("expected encrypted frame")
           /\ adapterCall.chunk = NoChunk

\* the sender's own frame with the flag set to Plaintext, under the sender's key
C24_GenuineFrameMarkedPlaintext ==
    /\ adapterCall.done
    /\ adapterWire.via = "other"
    /\ adapterWire.frame = [adapterSent.frame EXCEPT !.encryption_flag = "Plaintext"]
    /\ adapterCall.key = adapterSent.key
    /\ adapterCall.result = InvalidFrame("expected encrypted frame")

\* C25: decrypt_chunk_frame(f', k') is Ok only when f' is the frame
\* encrypt_chunk_frame(c, k) returned and k' is k; every other frame and every
\* other key fails with Crypto (a frame that is not marked Encrypted fails
\* with InvalidFrame, as C24 says), so the chunk the receiver obtains is the
\* chunk the sender encrypted
C25_OnlyTheSentFrameOpens ==
    adapterCall.done =>
        /\ adapterCall.result.ok
             => /\ adapterWire.frame = adapterSent.frame
                /\ adapterCall.key = adapterSent.key
                /\ adapterCall.chunk = adapterSent.chunk
        /\ (/\ adapterWire.frame.encryption_flag = "Encrypted"
            /\ (adapterWire.frame # adapterSent.frame \/ adapterCall.key # adapterSent.key))
             => adapterCall.result = Crypto("failed to decrypt chunk payload")

---------------------------------------------------------------------------
(* The claims about route planning (SpecRoute) *)

\* what the claim says decide_route depends on
Signals(call) ==
    [local_nat     |-> call.local_nat,
     remote_nat    |-> call.remote_nat,
     has_reflexive |-> <<call.local.stun_reflexive_candidate.some,
                         call.remote.stun_reflexive_candidate.some>>,
     has_relay     |-> <<call.local.relay_candidate.some,
                         call.remote.relay_candidate.some>>]

\* the route in the order the claim gives
ClaimedRoute(sig) ==
    LET symmetric == sig.local_nat = "Symmetric" \/ sig.remote_nat = "Symmetric"
        relay     == sig.has_relay[1] \/ sig.has_relay[2]
        reflexive == sig.has_reflexive[1] /\ sig.has_reflexive[2]
    IN CASE symmetric /\ relay    -> "Relay"
         [] symmetric /\ ~relay   -> "Direct"
         [] ~symmetric /\ reflexive -> "Direct"
         [] ~symmetric /\ ~reflexive /\ relay -> "Relay"
         [] OTHER -> "Direct"

\* "relay unavailable"
RelayUnavailable == <<114, 101, 108, 97, 121, 32, 117, 110, 97, 118, 97, 105, 108, 97, 98, 108, 101>>

Contains(text, phrase) ==
    \E i \in 1..(Len(text) - Len(phrase) + 1) :
        SubSeq(text, i, i + Len(phrase) - 1) = phrase

RouteCalls == { call \in {routeFirst, routeSecond} : call.done }

\* C29: decide_route depends only on the two NAT types and on which
\* reflexive and relay candidates are present: with a Symmetric NAT on either
\* side it is Relay when either side has a relay candidate and otherwise
\* Direct with a reason containing "relay unavailable"; else Direct when both
\* sides have a reflexive candidate; else Relay when either side has a relay
\* candidate; else Direct. Relay is never chosen without a relay candidate
C29_RouteDecisionOrder ==
    /\ \A call \in RouteCalls :
         LET sig == Signals(call)
         IN /\ call.plan.route = ClaimedRoute(sig)
            /\ (/\ sig.local_nat = "Symmetric" \/ sig.remote_nat = "Symmetric"
                /\ ~sig.has_relay[1]
                /\ ~sig.has_relay[2])
                  => Contains(call.plan.reason, RelayUnavailable)
            /\ call.plan.route = "Relay" => (sig.has_relay[1] \/ sig.has_relay[2])
    /\ (routeSecond.done /\ Signals(routeFirst) = Signals(routeSecond))
          => routeFirst.plan = routeSecond.plan

\* both sides have reflexive and relay candidates and the remote NAT is Symmetric:
\* the calls agree on Relay although the candidates sit at other addresses
C29_SymmetricWinsOverReflexive ==
    /\ routeSecond.done
    /\ Signals(routeFirst) = Signals(routeSecond)
    /\ routeFirst.local # routeSecond.local
    /\ routeFirst.remote_nat = "Symmetric"
    /\ routeFirst.local_nat = "FullCone"
    /\ Signals(routeFirst).has_reflexive = <<TRUE, TRUE>>
    /\ Signals(routeFirst).has_relay = <<FALSE, TRUE>>
    /\ routeSecond.plan.route = "Relay"

---------------------------------------------------------------------------
(* The claims about the offline guard (SpecOffline) *)

\* an IPv4 address as a number below 2^32 is beyond the integers at hand: a
\* prefix of at most 16 bits is compared on the first two octets instead
InV4Prefix(ip, a, b, bits) ==
    /\ ip.v = 4
    /\ (ip.parts[1] * 256 + ip.parts[2]) \div Pow2(16 - bits) = (a * 256 + b) \div Pow2(16 - bits)

\* the first segment of an IPv6 address lies in the prefix seg/bits, bits <= 16
InV6Prefix(ip, seg, bits) ==
    /\ ip.v = 6
    /\ ip.parts[1] \div Pow2(16 - bits) = seg \div Pow2(16 - bits)

\* the classes in the order and with the ranges the claim gives: loopback,
\* link-local (169.254/16, fe80::/10), private (10/8, 172.16/12, 192.168/16,
\* fc00::/7), public
ClaimedClass(ip) ==
    CASE InV4Prefix(ip, 127, 0, 8) \/ ip = V6(<<0, 0, 0, 0, 0, 0, 0, 1>>) -> "loopback"
      [] OTHER ->
    CASE InV4Prefix(ip, 169, 254, 16) \/ InV6Prefix(ip, 65152, 10) -> "link-local"
      [] OTHER ->
    CASE \/ InV4Prefix(ip, 10, 0, 8)
         \/ InV4Prefix(ip, 172, 16, 12)
         \/ InV4Prefix(ip, 192, 168, 16)
         \/ InV6Prefix(ip, 64512, 7) -> "private"
      [] OTHER -> "public"

ClaimedAllow(policy, class) ==
    CASE class = "loopback"   -> policy.allow_loopback
      [] class = "link-local" -> policy.allow_link_local
      [] class = "private"    -> policy.allow_private
      [] class = "public"     -> ~policy.deny_public

\* C30: a new guard is in offline mode; in offline mode evaluate_peer allows
\* or denies an address by its class (loopback, then link-local, then
\* private, else public) and the policy's switch for that class, so the
\* default policy denies every public address and allows every other; with
\* offline mode disabled every address is allowed; enable_offline_mode and
\* disable_offline_mode change the mode only, so enabling restores the policy
C30_OfflinePolicy ==
    /\ lanCall.op = "none" => lanGuard.mode_enabled
    /\ lanCall.op = "evaluate_peer" =>
         /\ lanGuard = lanCall.before
         /\ lanCall.decision.allow =
              (IF lanCall.before.mode_enabled
               THEN ClaimedAllow(lanCall.before.policy, ClaimedClass(lanCall.addr.ip))
               ELSE TRUE)
         /\ (lanCall.before.mode_enabled /\ lanCall.before.policy = DefaultPolicy)
              => (lanCall.decision.allow <=> ClaimedClass(lanCall.addr.ip) # "public")
    /\ lanCall.op = "disable_offline_mode" =>
         lanGuard = [policy |-> lanCall.before.policy, mode_enabled |-> FALSE]
    /\ lanCall.op = "enable_offline_mode" =>
         lanGuard = [policy |-> lanCall.before.policy, mode_enabled |-> TRUE]

\* a 172.31/16 peer is denied by a guard whose policy denies private addresses only
C30_PrivatePeerDenied ==
    /\ lanCall.op = "evaluate_peer"
    /\ lanCall.before.mode_enabled
    /\ lanCall.before.policy = [DefaultPolicy EXCEPT !.allow_private = FALSE]
    /\ lanCall.addr.ip = V4(172, 31, 255, 255)
    /\ lanCall.decision = Deny("private-range denied")

\* C31: validate_peer_set(peers) returns Ok exactly when evaluate_peer allows every
\* peer of the set (so for the empty set); otherwise it returns PeerDenied with the
\* address and the reason of the first peer, in iteration order, that is denied.
C31_ValidatePeerSet ==
    lanSetCall.op = "validate_peer_set" =>
        LET g      == lanSetCall.before
            peers  == lanSetCall.peers
            denied == {i \in 1..Len(peers) : ~evaluate_peer(g, peers[i]).allow}
            result == lanSetCall.result
        IN /\ result.ok <=> denied = {}
           /\ result.ok => result = PeersOk
           /\ ~result.ok =>
                \E i \in denied :
                    /\ \A j \in denied : i <= j
                    /\ result.err = "PeerDenied"
                    /\ result.peer = peers[i]
                    /\ result.reason = evaluate_peer(g, peers[i]).reason
           /\ lanGuard = g

\* an allowed peer, then a denied private one, then a denied public one
C31_SecondOfThreeDenied ==
    /\ lanSetCall.op = "validate_peer_set"
    /\ lanSetCall.before = [policy |-> [DefaultPolicy EXCEPT !.allow_private = FALSE],
                            mode_enabled |-> TRUE]
    /\ lanSetCall.peers = <<SocketAddr(V4(127, 0, 0, 1), 9000),
                            SocketAddr(V4(192, 168, 1, 10), 9000),
                            SocketAddr(V4(8, 8, 8, 8), 9000)>>
    /\ lanSetCall.result = PeerDenied(SocketAddr(V4(192, 168, 1, 10), 9000),
                                      "private-range denied")

---------------------------------------------------------------------------
(* The claims about assemble_file (SpecAssemble) *)

RECURSIVE LengthBefore(_, _)
\* the bytes of the chunks 0 .. i-1 together
LengthBefore(chunks, i) ==
    IF i = 0 THEN 0 ELSE LengthBefore(chunks, i - 1) + Len(chunks[i - 1])

\* C32: assemble_file(total_chunks, chunks) returns the chunks 0 .. total_chunks-1
\* one after the other in index order when every one of these indices is present,
\* and fails with MissingChunk(i) for the smallest missing index i otherwise;
\* entries at indices >= total_chunks have no effect on the result.
C32_AssembleFile ==
    asmCall.done =>
        LET total   == asmArgs.total_chunks
            chunks  == asmArgs.chunks
            wanted  == 0..(total - 1)
            missing == wanted \ DOMAIN chunks
            below   == [i \in DOMAIN chunks \cap wanted |-> chunks[i]]
        IN /\ missing = {} =>
                /\ asmCall.result = AssembleOk
                /\ Len(asmCall.out) = LengthBefore(below, total)
                /\ \A i \in wanted :
                     SubSeq(asmCall.out, LengthBefore(below, i) + 1,
                            LengthBefore(below, i + 1)) = below[i]
           /\ missing # {} =>
                /\ \E i \in missing :
                     (\A j \in missing : i <= j) /\ asmCall.result = MissingChunk(i)
                /\ asmCall.out = <<>>

\* chunks 0 and 2 are there, chunk 1 is not, and chunk 3 lies beyond total_chunks
C32_GapAtOne ==
    /\ asmCall.done
    /\ asmArgs.total_chunks = 3
    /\ DOMAIN asmArgs.chunks = {0, 2, 3}
    /\ asmCall.result = MissingChunk(1)

---------------------------------------------------------------------------
(* The claims about build_chunk_index (SpecIndex) *)

RECURSIVE SumOfLengths(_)
SumOfLengths(index) ==
    IF index = <<>> THEN 0 ELSE Head(index).length + SumOfLengths(Tail(index))

\* ceil(a / b) for b > 0
CeilDiv(a, b) == (a + b - 1) \div b

---------------------------------------------------------------------------
(* The claims about the strictness of the frame decoders (SpecFrame) *)

\* the u32 and the u16 that stand big-endian after the first `offset` bytes
U32At(bytes, offset) ==
    bytes[offset + 1] * 16777216 + bytes[offset + 2] * 65536
        + bytes[offset + 3] * 256 + bytes[offset + 4]
U16At(bytes, offset) == bytes[offset + 1] * 256 + bytes[offset + 2]

\* what C34 lets TransferChunk::decode accept
AcceptedV1(bytes) ==
    /\ Len(bytes) >= 24
    /\ StartsWith(bytes, MAGIC_V1)
    /\ Len(bytes) = 24 + U32At(bytes, 20)
    /\ U32At(bytes, 16) >= 1
    /\ U32At(bytes, 12) < U32At(bytes, 16)

\* what C34 lets TransferChunkV2::decode accept
AcceptedV2(bytes) ==
    /\ Len(bytes) >= 40
    /\ StartsWith(bytes, MAGIC_V2)
    /\ bytes[5] = 2
    /\ bytes[6] \in {0, 1}
    /\ U32At(bytes, 18) >= 1
    /\ U32At(bytes, 14) < U32At(bytes, 18)
    /\ Len(bytes) = 40 + U16At(bytes, 34) + U32At(bytes, 36)

\* C34: the frame decoders are strict. TransferChunk::decode accepts a byte string
\* exactly when it has the v1 magic, length 24 + payload_len, total_chunks >= 1 and
\* chunk_index < total_chunks; TransferChunkV2::decode accepts exactly when it has
\* the v2 magic, version byte 2, encryption flag 0 or 1, total_chunks >= 1,
\* chunk_index < total_chunks and length 40 + aad_len + payload_len; every other
\* input yields InvalidFrame and no chunk.
C34_StrictDecoders ==
    frameCall.done =>
        /\ frameCall.v1.result.ok <=> AcceptedV1(frameBytes)
        /\ ~frameCall.v1.result.ok =>
             (frameCall.v1.result.err = "InvalidFrame" /\ frameCall.v1.chunk = NoChunk)
        /\ frameCall.v2.result.ok <=> AcceptedV2(frameBytes)
        /\ ~frameCall.v2.result.ok =>
             (frameCall.v2.result.err = "InvalidFrame" /\ frameCall.v2.chunk = NoChunkV2)

\* a well-formed v2 frame arrives with its flag byte set to 2 and is rejected
C34_UnknownFlagRejected ==
    /\ frameCall.done
    /\ frameIn.version = "V2"
    /\ WithinBounds(frameIn.v2) /\ frameIn.v2.protocol_version = 2
    /\ frameBytes = [frameIn.bytes EXCEPT ![6] = 2]
    /\ frameCall.v2.result = InvalidFrame("invalid encryption flag")

---------------------------------------------------------------------------
(* The claims about the frame encrypt_chunk_frame emits (SpecAdapter) *)

\* the frame has the fields C35 names, and an aad of aad_len bytes that is
\* transfer_id(be8) || chunk_index(be4) || total_chunks(be4)
EmittedFrame(aad_len) ==
    adapterSent.done =>
        LET chunk == adapterSent.chunk
            frame == adapterSent.frame
        IN /\ frame.protocol_version = 2
           /\ frame.encryption_flag = "Encrypted"
           /\ frame.transfer_id = chunk.transfer_id
           /\ frame.chunk_index = chunk.chunk_index
           /\ frame.total_chunks = chunk.total_chunks
           /\ frame.nonce = derive_nonce(chunk.transfer_id, chunk.chunk_index,
                                         "SenderToReceiver")
           /\ Len(frame.aad) = aad_len
           /\ Len(frame.aad) >= 16 =>
                /\ U32At(frame.aad, 0) = 0
                /\ U32At(frame.aad, 4) = chunk.transfer_id
                /\ U32At(frame.aad, 8) = chunk.chunk_index
                /\ U32At(frame.aad, 12) = chunk.total_chunks

\* C35: for every v1 chunk, encrypt_chunk_frame emits a v2 frame with
\* protocol_version 2, encryption_flag Encrypted, the chunk's transfer_id,
\* chunk_index and total_chunks, nonce = derive_nonce(transfer_id, chunk_index,
\* SenderToReceiver) and aad = transfer_id(be8) || chunk_index(be4) ||
\* total_chunks(be4), an aad that is 12 bytes long.
C35_EmittedFrameTwelve == EmittedFrame(12)

\* C35 as amended: the same fields, and an aad that is 16 bytes long.
C35_EmittedFrameSixteen == EmittedFrame(16)

\* the frame of chunk 1 of 2 of transfer 105
C35_FrameOfSecondChunk ==
    /\ adapterSent.done
    /\ adapterSent.chunk.transfer_id = 105
    /\ adapterSent.chunk.chunk_index = 1
    /\ adapterSent.chunk.total_chunks = 2
    /\ adapterSent.frame.aad = <<0, 0, 0, 0, 0, 0, 0, 105, 0, 0, 0, 1, 0, 0, 0, 2>>
    /\ adapterSent.frame.nonce = <<0, 0, 0, 0, 0, 0, 0, 105, 0, 0, 1, 1>>

---------------------------------------------------------------------------
(* The claims about the nonces within one session (SpecLong) *)

\* C36: session construction rejects any transfer whose total_chunks would
\* exceed 2^24, so that within one TransferSession the frames encrypt_chunk_frame
\* produces for two different chunk indices never carry the same nonce under the
\* same key.
C36_NoNonceReuseInSession ==
    /\ (longArgs.chunk_size > 0
          /\ CeilDiv(longArgs.data_len, longArgs.chunk_size) > 16777216
          /\ longNew # PendingFilled)
         => ~longNew.result.ok
    /\ (longCall.done /\ longCall.first.chunk_index # longCall.second.chunk_index)
         => longCall.first_frame.nonce # longCall.second_frame.nonce

---------------------------------------------------------------------------
(* The claim that negotiation fails closed (SpecNegotiate) *)

\* an outcome of negotiate_encryption for the two sides is fail-closed
FailClosed(outcome, one, other) ==
    LET negotiated == outcome.negotiated
        requires   == \/ one.preferred_encryption_mode = "Required"
                      \/ other.preferred_encryption_mode = "Required"
    IN /\ outcome.result.ok =>
            /\ negotiated.enabled <=> negotiated.mode # "Off"
            /\ negotiated.enabled => (one.supports_encryption /\ other.supports_encryption)
       /\ requires =>
            \/ ~outcome.result.ok
            \/ negotiated = [enabled |-> TRUE, mode |-> "Required"]

\* C37: negotiation is fail-closed: for every pair of capabilities a successful
\* result has enabled = (mode # Off) and has enabled = true only if both sides
\* support encryption, and when either side prefers Required the outcome is an
\* error or {enabled = true, Required}, never a success with encryption disabled
\* or downgraded to Optional.
C37_NegotiationFailsClosed ==
    /\ negResult # NotNegotiated => FailClosed(negResult, negArgs.client, negArgs.server)
    /\ negSwapped # NotNegotiated => FailClosed(negSwapped, negArgs.server, negArgs.client)

\* the client requires encryption and the server, which prefers Off, cannot encrypt
C37_RequiredMeetsUnsupported ==
    /\ negArgs.client = [supports_encryption |-> TRUE, preferred_encryption_mode |-> "Required"]
    /\ negArgs.server = [supports_encryption |-> FALSE, preferred_encryption_mode |-> "Off"]
    /\ negResult = NotNegotiatedFor("EncryptionRequiredButUnsupported")

---------------------------------------------------------------------------
(* The claim about what the session keys are derived from (SpecKeys) *)

\* the keys an observer of the two hellos computes for a role: digests of the
\* two labels and of fields of the hellos, nothing else
ObservedKeys(client_hello, server_hello, is_client) ==
    LET seen == client_hello.public_key_b64 \o server_hello.public_key_b64
                    \o client_hello.nonce \o server_hello.server_nonce
        c2s  == [sha256_of |-> C2SLabel \o seen]
        s2c  == [sha256_of |-> S2CLabel \o seen]
    IN IF is_client THEN [tx_key |-> c2s, rx_key |-> s2c]
       ELSE [tx_key |-> s2c, rx_key |-> c2s]

\* the hellos two devices exchange with the nonces of the derivation d
HelloOf(client, d)          == create_client_hello(ClientId, client, d.client_nonce, 0)
AnswerOf(server, client, d) ==
    create_server_hello(ServerId, server, HelloOf(client, d), d.server_nonce, 0)

\* C38: derive_session_keys is a deterministic function of values that travel
\* in clear in the two hellos (both public_key_b64 strings, the client nonce, the
\* server nonce) and of the role flag: no private key or other secret enters the
\* derivation, so whoever observes a ClientHello and its ServerHello computes the
\* tx and rx keys the two peers compute.
C38_KeysFromCleartext ==
    /\ (/\ keysFirst.done /\ keysSecond.done
        /\ Tuple(keysFirst) = Tuple(keysSecond)
        /\ keysFirst.is_client = keysSecond.is_client)
           => keysFirst.keys = keysSecond.keys
    /\ \A d \in {keysFirst, keysSecond} :
         d.done =>
            /\ d.keys = ObservedKeys([public_key_b64 |-> d.client_public_key_b64,
                                      nonce          |-> d.client_nonce],
                                     [public_key_b64 |-> d.server_public_key_b64,
                                      server_nonce   |-> d.server_nonce],
                                     d.is_client)
            /\ \A client \in Identities, server \in Identities :
                 (/\ d.client_public_key_b64 = public_key_b64(client)
                  /\ d.server_public_key_b64 = public_key_b64(server))
                    => d.keys = ObservedKeys(HelloOf(client, d), AnswerOf(server, client, d),
                                             d.is_client)

\* the client of a handshake between two devices derives its keys, and so does the server
C38_BothPeersDerived ==
    /\ keysFirst.done /\ keysSecond.done
    /\ keysFirst.is_client /\ ~keysSecond.is_client
    /\ Tuple(keysFirst) = Tuple(keysSecond)
    /\ keysFirst.client_public_key_b64 = public_key_b64([signing_key |-> 1])
    /\ keysFirst.server_public_key_b64 = public_key_b64([signing_key |-> 2])
    /\ keysFirst.client_nonce # keysFirst.server_nonce
    /\ keysSecond.keys = ObservedKeys(HelloOf([signing_key |-> 1], keysSecond),
                                      AnswerOf([signing_key |-> 2], [signing_key |-> 1],
                                               keysSecond), FALSE)

---------------------------------------------------------------------------
(* The claim about what the ReplayGuard holds (SpecGuard) *)

\* C39: the memory of the replay guard is bounded by the ttl: with
\* non-decreasing times, right after any check_and_remember(_, now) or
\* expire(now) every entry still held has now - first_seen <= ttl, so the guard
\* holds at most the distinct nonces accepted during the last ttl and keeps no
\* expired nonce across a check.
C39_MemoryBoundedByTtl ==
    (guardLog # <<>> /\ NonDecreasingTimes) =>
        LET now == guardLog[Len(guardLog)].now
        IN \A nonce \in DOMAIN guard.seen :
            /\ guard.seen[nonce] <= now
            /\ now - guard.seen[nonce] <= guard.ttl
            /\ \E i \in Checks :
                 /\ guardLog[i].nonce = nonce
                 /\ guardLog[i].result
                 /\ guardLog[i].now = guard.seen[nonce]
                 /\ now - guardLog[i].now <= guard.ttl

\* a nonce was accepted, and more than ttl later the check of another nonce
\* purged it: the guard holds the second nonce alone
C39_PurgedByLaterCheck ==
    /\ NonDecreasingTimes
    /\ Len(guardLog) = 2
    /\ guardLog[1].op = "check_and_remember" /\ guardLog[1].result
    /\ guardLog[2].op = "check_and_remember" /\ guardLog[2].result
    /\ guardLog[1].nonce # guardLog[2].nonce
    /\ guardLog[2].now - guardLog[1].now > guard.ttl
    /\ DOMAIN guard.seen = {guardLog[2].nonce}

---------------------------------------------------------------------------
(* The claim about the audit log (SpecAudit) *)

\* the metadata an event is stored with: the value of each of the five
\* sensitive keys it has replaced, everything else as it was handed in
StoredMetadata(metadata) ==
    [k \in DOMAIN metadata |->
        IF k \in {"file_name", "file_path", "receiver_name", "sender_name", "payload"}
        THEN "[REDACTED]"
        ELSE metadata[k]]

\* C40: after any sequence of record_event calls, events() holds at most
\* max_events entries, and they are exactly the most recently recorded events
\* in the order they were recorded (the oldest are dropped first); every stored
\* event has "[REDACTED]" for each of its metadata keys among file_name,
\* file_path, receiver_name, sender_name and payload, and its other metadata
\* (and its other fields) as they were recorded.
C40_RetentionAndRedaction ==
    LET held == events(telemetry)
        n    == Len(recorded)
        kept == Min(n, telemetry.retention.max_events)
    IN /\ Len(held) <= telemetry.retention.max_events
       /\ Len(held) = kept
       /\ \A i \in 1..kept :
            held[i] = [recorded[n - kept + i] EXCEPT
                          !.metadata = StoredMetadata(recorded[n - kept + i].metadata)]

\* three events were recorded under max_events = 2: the first is gone, and the
\* second is held with its file_name redacted and its transfer_id kept
C40_OldestDroppedSecondRedacted ==
    /\ telemetry.retention.max_events = 2
    /\ Len(recorded) = 3
    /\ recorded[1] # recorded[2]
    /\ "file_name" \in DOMAIN recorded[2].metadata
    /\ recorded[2].metadata["file_name"] = "secret.pdf"
    /\ Len(events(telemetry)) = 2
    /\ events(telemetry)[1].timestamp_ms = recorded[2].timestamp_ms
    /\ events(telemetry)[1].metadata["file_name"] = "[REDACTED]"
    /\ events(telemetry)[1].metadata["transfer_id"] = "42"
    /\ events(telemetry)[2].metadata = StoredMetadata(recorded[3].metadata)

====
